---------------------------- MODULE Spec2Model ----------------------------
(***************************************************************************)
(* A model of the structured consensus engine of ciwa:                    *)
(*   - the retry-with-feedback acquisition of a structured response       *)
(*     (LLMAgentParticipant.send_prompt_with_retries and its callers),    *)
(*   - the voting methods, voting results and voting managers,            *)
(*   - Topic.add_submission and the round run by Session.run.             *)
(*                                                                         *)
(* Seven specifications share the variables:                               *)
(*   SpecRetry  one retry chain of send_prompt_with_retries;              *)
(*   Spec       one Session.run over its topics and participants;         *)
(*   SpecVM     one voting manager driven by arbitrary sequences of       *)
(*              add_submission, collect_votes and get_results.            *)
(*   SpecResults  one VotingResults object driven by arbitrary add_vote   *)
(*              calls;                                                     *)
(*   SpecMethod one voting method processing the votes of a results       *)
(*              object, with the fixtures of the unit tests;              *)
(*   SpecTopic  one Topic built and used directly: Topic.__init__,        *)
(*              set_submission_content_schema and add_submission;         *)
(*   SpecProcess  one Process running its sessions: run_all_sessions,     *)
(*              run_next_session and add_session.                         *)
(* SpecLive and SpecRetryLive are Spec and SpecRetry with fairness.       *)
(***************************************************************************)
EXTENDS Integers, Sequences, FiniteSets, TLC

(***************************************************************************)
(* Bounds of the model.                                                    *)
(***************************************************************************)
MaxAttemptsBound == 3
MaxTopics == 2
MaxParticipants == 2
MaxSubsPerTopic == 1
MaxConcurrent == 2
MaxVMSubmissions == 2
MaxVMCollects == 2
MaxBallots == 4
MaxAddVotes == 3
MaxTopicCalls == 3
MaxSessions == 4

(***************************************************************************)
(* Program constants.                                                      *)
(***************************************************************************)
DEFAULT_MAX_RESPONSE_ATTEMPTS == 3

VARIABLES
    \* ---- one retry chain (send_prompt_with_retries) ----
    rp_pc,          \* "call" | "awaiting" | "returned"
    rp_kind,        \* "submission" | "vote": which caller built validation_steps
    rp_arg_max,     \* the max_attempts argument of the outermost call
    rp_max,         \* max_attempts after `max_attempts or self.max_response_attempts`
    rp_attempt,     \* the attempt argument of the current call
    rp_prompt,      \* the prompt argument of the current call
    rp_requests,    \* the prompts handed to send_prompt, in order
    rp_sent,        \* the texts handed to _send_prompt, in order
    rp_responses,   \* get_json of every response, in order
    rp_failed,      \* for every response, the index of the first failing step (0: none)
    rp_result       \* what the outermost call returned

rvars == <<rp_pc, rp_kind, rp_arg_max, rp_max, rp_attempt, rp_prompt,
           rp_requests, rp_sent, rp_responses, rp_failed, rp_result>>

VARIABLES
    \* ---- a session, its topics and their voting managers ----
    topics,         \* Session.topics: the Topic objects with their VotingManager
    participants,   \* len(Session.participants); the participants are 1..participants
    max_concurrent, \* Session.max_concurrent
    max_subs_per_topic, \* Session.max_subs_per_topic
    do_save_results,\* Session.do_save_results
    pc,             \* where Session.run stands
    semaphore,      \* the value of the semaphore of gather_submissions
    tasks,          \* the submission tasks gather_submissions created, in order
    collect,        \* per topic, the running collect_votes call and its vote tasks
    is_complete,    \* Session.is_complete
    results,        \* Session.results
    saved,          \* whether save_results has written the results file
    exc,            \* the exception that left Session.run ("" for none)
    vm_calls,       \* SpecVM, SpecResults, SpecMethod, SpecTopic: the calls made on
                    \* the manager, on its results object or on the topic
    vm_ret          \* SpecVM, SpecMethod: what the last get_results or process_votes
                    \* call returned or raised

svars == <<topics, participants, max_concurrent, max_subs_per_topic, do_save_results,
           pc, semaphore, tasks, collect, is_complete, results, saved, exc,
           vm_calls, vm_ret>>

VARIABLES
    \* ---- a process and its sessions ----
    sessions,           \* the Session objects created for the process, by number
    pending_sessions,   \* Process.pending_sessions: the numbers of the sessions to run
    current_session,    \* Process.current_session (0 for None)
    completed_sessions, \* Process.completed_sessions
    proc_pc,            \* where run_all_sessions stands
    proc_exc            \* the exception the last call on the process raised ("" for none)

pvars == <<sessions, pending_sessions, current_session, completed_sessions,
           proc_pc, proc_exc>>

vars == <<rvars, svars, pvars>>

\* A state of the process variables in which no process exists.
IdleProcess ==
    /\ sessions = << >>
    /\ pending_sessions = << >>
    /\ current_session = 0
    /\ completed_sessions = << >>
    /\ proc_pc = "none"
    /\ proc_exc = ""

(***************************************************************************)
(* Python values.  A payload a participant produced is a record; None is   *)
(* the payload whose isNone is TRUE.  schema_ok says whether the payload   *)
(* satisfies the response schema, custom_ok whether the topic's            *)
(* submission validator accepts it, n which request it answers.            *)
(***************************************************************************)
None == [isNone |-> TRUE, schema_ok |-> FALSE, custom_ok |-> FALSE, n |-> 0]

Payload(s, c, k) == [isNone |-> FALSE, schema_ok |-> s, custom_ok |-> c, n |-> k]

\* What a participant may answer to request k: text or a dict, well formed or not.
RawResponses(k) ==
    [form : {"str", "dict", "other"}, parses : BOOLEAN,
     data : {Payload(s, c, k) : s \in BOOLEAN, c \in BOOLEAN}]

\* json_utils.get_json: a str is parsed (None when it does not parse), a dict is
\* returned as it is, anything else gives None.
get_json(raw) ==
    IF raw.form = "str"
    THEN IF raw.parses THEN raw.data ELSE None
    ELSE IF raw.form = "dict" THEN raw.data ELSE None

\* json_utils.is_valid_json_for_schema: jsonschema.validate passes.
is_valid_json_for_schema(json) == ~json.isNone /\ json.schema_ok

\* The validator functions of validation_steps, by name.
ApplyValidator(name, json) ==
    IF name = "json_schema" THEN is_valid_json_for_schema(json)
    ELSE json.custom_ok

\* validation_steps as built by _get_submission_response and _get_vote_response.
SubmissionValidationSteps ==
    << [validator |-> "json_schema", invalid_message |-> "invalid_json_response"],
       [validator |-> "submission_validator", invalid_message |-> "submission_invalid_message"] >>

VoteValidationSteps ==
    << [validator |-> "json_schema", invalid_message |-> "invalid_json_response"] >>

ValidationSteps(kind) ==
    IF kind = "submission" THEN SubmissionValidationSteps ELSE VoteValidationSteps

\* Mutant: only the first validation step is run.
FirstFailing_OnlyFirstStep(steps, json) ==
    IF ~ApplyValidator(steps[1].validator, json) THEN 1 ELSE 0

\* Mutant: every validator is run and the last one that rejects decides.
FirstFailing_LastStep(steps, json) ==
    IF \E i \in 1..Len(steps) : ~ApplyValidator(steps[i].validator, json)
    THEN CHOOSE i \in 1..Len(steps) :
            /\ ~ApplyValidator(steps[i].validator, json)
            /\ \A j \in (i + 1)..Len(steps) : ApplyValidator(steps[j].validator, json)
    ELSE 0

\* The for loop over validation_steps: the index of the first step whose
\* validator rejects the response, 0 when every validator accepts it.
FirstFailing(steps, json) ==
    IF \E i \in 1..Len(steps) : ~ApplyValidator(steps[i].validator, json)
    THEN CHOOSE i \in 1..Len(steps) :
            /\ ~ApplyValidator(steps[i].validator, json)
            /\ \A j \in 1..(i - 1) : ApplyValidator(steps[j].validator, json)
    ELSE 0

\* Mutant: the corrective message is appended after the prompt.
RetryPrompt_MessageLast(invalid_message, prompt) == prompt \o <<invalid_message>>

\* A prompt is a sequence of lines.  retry_prompt = f"{invalid_message}\n{prompt}".
RetryPrompt(invalid_message, prompt) == <<invalid_message>> \o prompt

\* send_prompt: prompt += f"\n{self.get_respond_with_json(schema)}".
SendPromptText(prompt) == prompt \o <<"respond_with_json">>

\* Mutant: the attempts left are not counted.
MayRetry_Always(attempt, max_attempts) == TRUE

\* `if attempt < max_attempts:` of send_prompt_with_retries.
MayRetry(attempt, max_attempts) == attempt < max_attempts

\* `max_attempts = max_attempts or self.max_response_attempts`; 0 stands for a
\* missing (None) or zero argument, both falsy.
EffectiveMaxAttempts(arg) == IF arg = 0 THEN DEFAULT_MAX_RESPONSE_ATTEMPTS ELSE arg

OriginalPrompt == <<"prompt">>

(***************************************************************************)
(* JSON values of vote payloads.  Every value is a record of the same      *)
(* shape: jt is the JSON type, and one of s (string), i (integer),         *)
(* a (array of integers) or o (object: a sequence of <<k, score>> pairs,   *)
(* the pair <<k, x>> standing for the member "submission_k": x) holds it.  *)
(***************************************************************************)
JNull   == [jt |-> "null",    s |-> "", i |-> 0, a |-> << >>, o |-> << >>]
JStr(x) == [jt |-> "string",  s |-> x,  i |-> 0, a |-> << >>, o |-> << >>]
JInt(x) == [jt |-> "integer", s |-> "", i |-> x, a |-> << >>, o |-> << >>]
JArr(x) == [jt |-> "array",   s |-> "", i |-> 0, a |-> x,     o |-> << >>]
JObj(x) == [jt |-> "object",  s |-> "", i |-> 0, a |-> << >>, o |-> x]

\* A vote response: has_vote says whether the member "vote" is present, extra
\* whether any other member is.  EmptyDict is {}.
VoteJson(v)      == [has_vote |-> TRUE,  extra |-> FALSE, vote |-> v]
VoteJsonExtra(v) == [has_vote |-> TRUE,  extra |-> TRUE,  vote |-> v]
EmptyDict        == [has_vote |-> FALSE, extra |-> FALSE, vote |-> JNull]

\* LLMAgentParticipant._get_vote_response: {} when send_prompt_with_retries gave
\* None, the response otherwise.  `failed` says the chain returned None.
GetVoteResponse(failed, json) == IF failed THEN EmptyDict ELSE json

Range(q) == {q[i] : i \in 1..Len(q)}

(***************************************************************************)
(* Voting methods.  A method is a record: type, enum_values (EnumLabel,    *)
(* YesNoLabel), start_value and end_value (ScoreLabel, ScoreCompare).      *)
(***************************************************************************)
EnumLabel(values) ==
    [type |-> "EnumLabel", enum_values |-> values, start_value |-> 0, end_value |-> 0]
YesNoLabel ==
    [type |-> "YesNoLabel", enum_values |-> <<"yes", "no">>, start_value |-> 0, end_value |-> 0]
ScoreLabel(lo, hi) ==
    [type |-> "ScoreLabel", enum_values |-> << >>, start_value |-> lo, end_value |-> hi]
RankingCompare ==
    [type |-> "RankingCompare", enum_values |-> << >>, start_value |-> 0, end_value |-> 0]
ScoreCompare(lo, hi) ==
    [type |-> "ScoreCompare", enum_values |-> << >>, start_value |-> lo, end_value |-> hi]

\* LabelVotingMethod.is_label / CompareVotingMethod.is_label.
is_label(m) == m.type \in {"EnumLabel", "YesNoLabel", "ScoreLabel"}

\* The vote structure of get_vote_schema, as the predicate jsonschema evaluates
\* on the member "vote"; n is num_submissions (compare methods only).
\* EnumLabel: {"type": "string", "enum": enum_values}.
EnumLabel_vote_structure(m, v) ==
    v.jt = "string" /\ v.s \in Range(m.enum_values)

\* ScoreLabel: integer, minimum start_value, maximum end_value.
ScoreLabel_vote_structure(m, v) ==
    v.jt = "integer" /\ v.i >= m.start_value /\ v.i <= m.end_value

\* RankingCompare: array of n unique integers, each between 1 and n.
RankingCompare_vote_structure(n, v) ==
    /\ v.jt = "array"
    /\ Len(v.a) = n
    /\ \A x \in 1..Len(v.a) : v.a[x] >= 1 /\ v.a[x] <= n
    /\ \A x, y \in 1..Len(v.a) : x # y => v.a[x] # v.a[y]

\* ScoreCompare: object whose members submission_1 .. submission_n are required
\* and are integers within range; the schema says nothing of other members.
ScoreCompare_vote_structure(m, n, v) ==
    /\ v.jt = "object"
    /\ \A k \in 1..n : \E x \in 1..Len(v.o) : v.o[x][1] = k
    /\ \A x \in 1..Len(v.o) :
          v.o[x][1] \in 1..n => (v.o[x][2] >= m.start_value /\ v.o[x][2] <= m.end_value)

\* jsonschema.validate(instance=vote_json, schema=self.schema) with the schema of
\* SchemaFactory.create_object_schema("vote", vote_structure): an object with the
\* required member "vote", no other member, and a vote of the method's structure.
ValidVote(m, n, vj) ==
    /\ vj.has_vote
    /\ ~vj.extra
    /\ IF m.type \in {"EnumLabel", "YesNoLabel"} THEN EnumLabel_vote_structure(m, vj.vote)
       ELSE IF m.type = "ScoreLabel" THEN ScoreLabel_vote_structure(m, vj.vote)
       ELSE IF m.type = "RankingCompare" THEN RankingCompare_vote_structure(n, vj.vote)
       ELSE ScoreCompare_vote_structure(m, n, vj.vote)

(***************************************************************************)
(* Numbers.  round(x, 3) of a quotient is kept in thousandths.             *)
(***************************************************************************)
ROUND_NDIGITS == 3

RECURSIVE Pow10(_)
Pow10(k) == IF k = 0 THEN 1 ELSE 10 * Pow10(k - 1)

\* Mutant: the quotient is cut after ROUND_NDIGITS decimals.
Round3_Truncating(total, count) == (total * Pow10(ROUND_NDIGITS)) \div count

\* round(total / count, ROUND_NDIGITS) in units of 10^-ROUND_NDIGITS, ties to even.
Round3(total, count) ==
    LET num == total * Pow10(ROUND_NDIGITS)
        q   == num \div count
        r   == num % count
    IN IF 2 * r < count THEN q
       ELSE IF 2 * r > count THEN q + 1
       ELSE IF q % 2 = 0 THEN q ELSE q + 1

RECURSIVE SumSeq(_)
SumSeq(q) == IF q = << >> THEN 0 ELSE Head(q) + SumSeq(Tail(q))

\* An aggregate number: null (None) or a value in thousandths.
NullNumber == [isNull |-> TRUE, milli |-> 0]
Number(x)  == [isNull |-> FALSE, milli |-> x]

(***************************************************************************)
(* Python dicts keep insertion order: a dict is a sequence of [k, v]       *)
(* records with distinct keys.                                             *)
(***************************************************************************)
DictKeys(d) == [x \in 1..Len(d) |-> d[x].k]

DictHas(d, key) == \E x \in 1..Len(d) : d[x].k = key

DictGet(d, key) == d[CHOOSE x \in 1..Len(d) : d[x].k = key].v

\* d[key] = value: an existing key keeps its place, a new key goes last.
DictSet(d, key, value) ==
    IF DictHas(d, key)
    THEN [x \in 1..Len(d) |-> IF d[x].k = key THEN [k |-> key, v |-> value] ELSE d[x]]
    ELSE Append(d, [k |-> key, v |-> value])

\* The keys of {key: ... for key in q}: q without its repeated elements.
RECURSIVE Dedup(_)
Dedup(q) ==
    IF q = << >> THEN << >>
    ELSE LET front == Dedup(SubSeq(q, 1, Len(q) - 1))
             last  == q[Len(q)]
         IN IF last \in Range(front) THEN front ELSE Append(front, last)

(***************************************************************************)
(* VotingResults.  A results object is a record:                           *)
(*   participants  the ids of the participants who voted, in order,        *)
(*   votes_data    label: dict submission id -> dict participant -> vote,  *)
(*                 compare: dict participant -> vote,                      *)
(*   submissions   label: dict submission id -> list of [uuid, vote],      *)
(*   aggregated_results  dict submission id -> result.                     *)
(***************************************************************************)
NewVotingResults ==
    [participants |-> << >>, votes_data |-> << >>, submissions |-> << >>,
     aggregated_results |-> << >>]

\* `if participant_id not in self.participants: self.participants.append(...)`.
AddParticipant(ps, pid) == IF pid \in Range(ps) THEN ps ELSE Append(ps, pid)

\* Mutant: a vote of a participant who already voted on the submission is dropped.
LabelVotingResults_add_vote_KeepFirst(res, pid, sid, vote) ==
    IF DictHas(res.votes_data, sid) /\ DictHas(DictGet(res.votes_data, sid), pid)
    THEN res
    ELSE [res EXCEPT
            !.participants = AddParticipant(@, pid),
            !.submissions = DictSet(@, sid, Append(IF DictHas(@, sid) THEN DictGet(@, sid) ELSE << >>,
                                                   [uuid |-> pid, vote |-> vote])),
            !.votes_data = DictSet(@, sid, DictSet(IF DictHas(@, sid) THEN DictGet(@, sid) ELSE << >>,
                                                   pid, vote))]

\* Mutant: every vote is recorded under the first submission.
LabelVotingResults_add_vote_FirstSubmission(res, pid, sid, vote) ==
    [res EXCEPT
        !.participants = AddParticipant(@, pid),
        !.submissions =
            DictSet(@, 1,
                    Append(IF DictHas(@, 1) THEN DictGet(@, 1) ELSE << >>,
                           [uuid |-> pid, vote |-> vote])),
        !.votes_data =
            DictSet(@, 1,
                    DictSet(IF DictHas(@, 1) THEN DictGet(@, 1) ELSE << >>,
                            pid, vote))]

\* LabelVotingResults.add_vote(participant_id, {submission_id: vote}).
LabelVotingResults_add_vote(res, pid, sid, vote) ==
    [res EXCEPT
        !.participants = AddParticipant(@, pid),
        !.submissions =
            DictSet(@, sid,
                    Append(IF DictHas(@, sid) THEN DictGet(@, sid) ELSE << >>,
                           [uuid |-> pid, vote |-> vote])),
        !.votes_data =
            DictSet(@, sid,
                    DictSet(IF DictHas(@, sid) THEN DictGet(@, sid) ELSE << >>,
                            pid, vote))]

\* Mutant: a second vote of a participant is dropped.
CompareVotingResults_add_vote_KeepFirst(res, pid, vote) ==
    IF DictHas(res.votes_data, pid)
    THEN res
    ELSE [res EXCEPT !.participants = AddParticipant(@, pid),
                     !.votes_data = DictSet(@, pid, vote)]

\* Mutant: every vote is stored under the same key.
CompareVotingResults_add_vote_SharedCell(res, pid, vote) ==
    [res EXCEPT
        !.participants = AddParticipant(@, pid),
        !.votes_data = DictSet(@, 1, vote)]

\* CompareVotingResults.add_vote(participant_id, vote_data).
CompareVotingResults_add_vote(res, pid, vote) ==
    [res EXCEPT
        !.participants = AddParticipant(@, pid),
        !.votes_data = DictSet(@, pid, vote)]

(***************************************************************************)
(* process_votes of the voting methods.  Each gives [err, agg]: err names  *)
(* the exception the code raises ("" when it returns), agg is the dict     *)
(* returned, a sequence of [k |-> submission id, v |-> result]; a result   *)
(* is [counts, num].                                                       *)
(***************************************************************************)
Returned(agg) == [err |-> "", agg |-> agg]
Raised(e)     == [err |-> e, agg |-> << >>]

CountsResult(c) == [counts |-> c, num |-> NullNumber]
NumberResult(x) == [counts |-> << >>, num |-> x]

\* Mutant: a value is counted once however many votes have it.
CountOf_Presence(votes, x) == IF \E y \in 1..Len(votes) : votes[y].v.vote.s = x THEN 1 ELSE 0

\* The number of votes of value x among the votes (a dict participant -> vote).
CountOf(votes, x) == Cardinality({y \in 1..Len(votes) : votes[y].v.vote.s = x})

\* Mutant: submissions without votes are left out of the aggregate.
EnumLabel_process_votes_OnlyVoted(m, res, submission_ids) ==
    Returned([x \in 1..Len(res.votes_data) |->
        [k |-> res.votes_data[x].k,
         v |-> CountsResult([e \in Range(m.enum_values) |->
                                CountOf(res.votes_data[x].v, e)])]])

\* Mutant: the counts are added to those of the previous aggregate.
EnumLabel_process_votes_Accumulating(m, res, submission_ids) ==
    LET ids  == Dedup(submission_ids)
        prev == res.aggregated_results
    IN Returned([x \in 1..Len(ids) |->
            [k |-> ids[x],
             v |-> CountsResult([e \in Range(m.enum_values) |->
                      (IF DictHas(prev, ids[x]) THEN DictGet(prev, ids[x]).counts[e] ELSE 0)
                      + (IF DictHas(res.votes_data, ids[x])
                         THEN CountOf(DictGet(res.votes_data, ids[x]), e)
                         ELSE 0)])]])

\* EnumLabel.process_votes: a zero count per enum value for every submission id,
\* then one increment per recorded vote.
EnumLabel_process_votes(m, res, submission_ids) ==
    LET ids == Dedup(submission_ids)
    IN IF \E x \in 1..Len(res.votes_data) : res.votes_data[x].k \notin Range(ids)
       THEN Raised("KeyError")
       ELSE Returned([x \in 1..Len(ids) |->
                [k |-> ids[x],
                 v |-> CountsResult([e \in Range(m.enum_values) |->
                          IF DictHas(res.votes_data, ids[x])
                          THEN CountOf(DictGet(res.votes_data, ids[x]), e)
                          ELSE 0])]])

\* The scores of the votes (a dict participant -> vote), in order.
ScoresOf(votes) == [y \in 1..Len(votes) |-> votes[y].v.vote.i]

\* Mutant: a submission without votes averages 0.
ScoreLabel_process_votes_ZeroForEmpty(m, res, submission_ids) ==
    LET ids == Dedup(submission_ids)
    IN Returned([x \in 1..Len(ids) |->
            [k |-> ids[x],
             v |-> NumberResult(
                     IF DictHas(res.votes_data, ids[x])
                     THEN Number(Round3(SumSeq(ScoresOf(DictGet(res.votes_data, ids[x]))),
                                        Len(DictGet(res.votes_data, ids[x]))))
                     ELSE Number(0))]])

\* ScoreLabel.process_votes: for every submission id the rounded mean of its
\* votes, None when it has none.
ScoreLabel_process_votes(m, res, submission_ids) ==
    LET ids == Dedup(submission_ids)
    IN Returned([x \in 1..Len(ids) |->
            [k |-> ids[x],
             v |-> NumberResult(
                     IF DictHas(res.votes_data, ids[x])
                        /\ Len(DictGet(res.votes_data, ids[x])) > 0
                     THEN Number(Round3(SumSeq(ScoresOf(DictGet(res.votes_data, ids[x]))),
                                        Len(DictGet(res.votes_data, ids[x]))))
                     ELSE NullNumber)]])

\* Mutant: of two equal totals the later one comes first.
SortedPlace_TiesReversed(totals, x) ==
    1 + Cardinality({y \in 1..Len(totals) :
                        \/ totals[y] < totals[x]
                        \/ (totals[y] = totals[x] /\ y > x)})

\* sorted(total_scores.items(), key=lambda item: item[1]): a stable sort, so the
\* place of entry x is the number of entries with a smaller total, or the same
\* total and an earlier position, plus one.
SortedPlace(totals, x) ==
    1 + Cardinality({y \in 1..Len(totals) :
                        \/ totals[y] < totals[x]
                        \/ (totals[y] = totals[x] /\ y < x)})

SortByTotal(ids, totals) ==
    [z \in 1..Len(ids) |->
        LET x == CHOOSE x \in 1..Len(ids) : SortedPlace(totals, x) = z
        IN [k |-> ids[x], total |-> totals[x]]]

\* The end of RankingCompare.process_votes and ScoreCompare.process_votes:
\* round(total / voter_count, ROUND_NDIGITS) for every entry in sorted order.
CompareAggregate(ids, totals, voter_count) ==
    IF Len(ids) > 0 /\ voter_count = 0
    THEN Raised("ZeroDivisionError")
    ELSE LET sorted == SortByTotal(ids, totals)
         IN Returned([z \in 1..Len(ids) |->
                [k |-> sorted[z].k,
                 v |-> NumberResult(Number(Round3(sorted[z].total, voter_count)))]])

\* Mutant: ranks count from one.
RankOf_OneBased(index_map, ranking, sid) ==
    SumSeq([r \in 1..Len(ranking) |-> IF index_map[ranking[r]] = sid THEN r ELSE 0])

\* The ranks (0-based positions) submission `sid` gets in one ranking vote.
RankOf(index_map, ranking, sid) ==
    SumSeq([r \in 1..Len(ranking) |-> IF index_map[ranking[r]] = sid THEN r - 1 ELSE 0])

\* RankingCompare.process_votes.  index_map is self.submission_index_map: the
\* sequence whose i-th element is the id of index i.
RankingCompare_process_votes(index_map, res, submission_ids) ==
    LET ids == Dedup(submission_ids)
        vd  == res.votes_data
    IN IF \E y \in 1..Len(vd) : \E r \in 1..Len(vd[y].v.vote.a) :
             \/ vd[y].v.vote.a[r] \notin 1..Len(index_map)
             \/ index_map[vd[y].v.vote.a[r]] \notin Range(ids)
       THEN Raised("KeyError")
       ELSE CompareAggregate(ids,
                [x \in 1..Len(ids) |->
                    SumSeq([y \in 1..Len(vd) |-> RankOf(index_map, vd[y].v.vote.a, ids[x])])],
                Len(vd))

\* The score one score vote gives to submission `sid`.
ScoreOf(index_map, scores, sid) ==
    SumSeq([r \in 1..Len(scores) |-> IF index_map[scores[r][1]] = sid THEN scores[r][2] ELSE 0])

\* ScoreCompare.process_votes.
ScoreCompare_process_votes(index_map, res, submission_ids) ==
    LET ids == Dedup(submission_ids)
        vd  == res.votes_data
    IN IF \E y \in 1..Len(vd) : \E r \in 1..Len(vd[y].v.vote.o) :
             \/ vd[y].v.vote.o[r][1] \notin 1..Len(index_map)
             \/ index_map[vd[y].v.vote.o[r][1]] \notin Range(ids)
       THEN Raised("KeyError")
       ELSE CompareAggregate(ids,
                [x \in 1..Len(ids) |->
                    SumSeq([y \in 1..Len(vd) |-> ScoreOf(index_map, vd[y].v.vote.o, ids[x])])],
                Len(vd))

\* VotingResults.process_votes: voting_method.process_votes(self, submission_ids).
process_votes(m, index_map, res, submission_ids) ==
    IF m.type \in {"EnumLabel", "YesNoLabel"} THEN EnumLabel_process_votes(m, res, submission_ids)
    ELSE IF m.type = "ScoreLabel" THEN ScoreLabel_process_votes(m, res, submission_ids)
    ELSE IF m.type = "RankingCompare" THEN RankingCompare_process_votes(index_map, res, submission_ids)
    ELSE ScoreCompare_process_votes(index_map, res, submission_ids)

\* LabelVotingResults.to_json: one entry per key of self.submissions, listing the
\* uuid and the vote of every element of its list, then the aggregate entries.
\* The created_at stamps are left out: time is not modelled.
LabelVotingResults_to_json(res) ==
    [submissions |->
        [x \in 1..Len(res.submissions) |->
            [uuid |-> res.submissions[x].k,
             voting_participants |->
                [y \in 1..Len(res.submissions[x].v) |->
                    [uuid |-> res.submissions[x].v[y].uuid,
                     vote |-> res.submissions[x].v[y].vote.vote]]]],
     aggregated_results |->
        [x \in 1..Len(res.aggregated_results) |->
            [uuid |-> res.aggregated_results[x].k, result |-> res.aggregated_results[x].v]]]

\* CompareVotingResults.to_json: one entry per key of self.votes_data, then the
\* aggregate entries.
CompareVotingResults_to_json(res) ==
    [voting_participants |->
        [x \in 1..Len(res.votes_data) |->
            [uuid |-> res.votes_data[x].k, vote |-> res.votes_data[x].v.vote]],
     aggregated_results |->
        [x \in 1..Len(res.aggregated_results) |->
            [uuid |-> res.aggregated_results[x].k, result |-> res.aggregated_results[x].v]]]

(***************************************************************************)
(* Topics and voting managers.                                             *)
(***************************************************************************)
\* VotingManager.__init__: an empty queue, no eligible id, fresh results; the
\* schema of a compare manager is None (here -1) until get_all_submissions sets
\* it for num_submissions; submission_index_map of the method starts empty.
NewVotingManager(m) ==
    [voting_method |-> m,
     submissions_needing_votes |-> << >>,
     submission_ids |-> << >>,
     schema |-> -1,
     submission_index_map |-> << >>,
     results |-> NewVotingResults]

\* Topic.__init__.
NewTopic(m) == [submissions |-> << >>, voting_manager |-> NewVotingManager(m)]

\* Submission(topic, participant, content): uuid is fresh for every submission.
Submission(uuid, participant) == [uuid |-> uuid, participant |-> participant]

\* Mutant: the submission is queued but its id is not recorded.
VotingManager_add_submission_QueueOnly(vm, sub) ==
    [vm EXCEPT !.submissions_needing_votes = Append(@, sub)]

\* VotingManager.add_submission: put_nowait on the queue, append the id.
VotingManager_add_submission(vm, sub) ==
    [vm EXCEPT !.submissions_needing_votes = Append(@, sub),
               !.submission_ids = Append(@, sub.uuid)]

\* Mutant: a rejected submission is still handed to the voting manager.
Topic_add_submission_ForwardAlways(topic, sub, accepted) ==
    IF accepted
    THEN [topic EXCEPT !.submissions = Append(@, sub),
                       !.voting_manager = VotingManager_add_submission(@, sub)]
    ELSE [topic EXCEPT !.voting_manager = VotingManager_add_submission(@, sub)]

\* Topic.add_submission: when submission_validator accepts the submission it is
\* appended and forwarded to the voting manager, otherwise it is only logged.
Topic_add_submission(topic, sub, accepted) ==
    IF accepted
    THEN [topic EXCEPT !.submissions = Append(@, sub),
                       !.voting_manager = VotingManager_add_submission(@, sub)]
    ELSE topic

\* Mutant: get_results hands the list of voters to process_votes in place of the
\* eligible submission ids.
VotingManager_process_VoterIds(vm) ==
    process_votes(vm.voting_method, vm.submission_index_map, vm.results, vm.results.participants)

\* LabelVotingManager.get_results / CompareVotingManager.get_results:
\* self.results.process_votes(self.voting_method, self.submission_ids).
VotingManager_process(vm) ==
    process_votes(vm.voting_method, vm.submission_index_map, vm.results, vm.submission_ids)

\* The schema argument the vote is validated against: that of a label manager
\* does not depend on the submissions.
SchemaN(vm) == IF is_label(vm.voting_method) THEN 0 ELSE vm.schema

\* No collect_votes call is running on the topic.
NoSubmission == Submission(0, 0)

IdleCollect ==
    [pc |-> "idle", participants |-> 0, submission |-> NoSubmission,
     submissions |-> << >>, vote_tasks |-> << >>]

\* No call was made on the voting manager or on its results object: adds and
\* collects count add_submission and collect_votes, votes lists the add_vote
\* calls made directly on the results object, calls lists the calls made
\* directly on a Topic.
NoCalls == [adds |-> 0, collects |-> 0, votes |-> << >>, calls |-> << >>]

\* get_results was not called yet.
NoReturn == [called |-> FALSE, fresh |-> FALSE, repeat |-> FALSE, err |-> "", agg |-> << >>]

\* A state of the session variables in which nothing of a session exists.
IdleSession ==
    /\ topics = << >>
    /\ participants = 0
    /\ max_concurrent = 1
    /\ max_subs_per_topic = 1
    /\ do_save_results = FALSE
    /\ pc = "none"
    /\ semaphore = 0
    /\ tasks = << >>
    /\ collect = << >>
    /\ is_complete = FALSE
    /\ results = [built |-> FALSE, topics |-> << >>]
    /\ saved = FALSE
    /\ exc = ""
    /\ vm_calls = NoCalls
    /\ vm_ret = NoReturn

(***************************************************************************)
(* collect_votes of the voting managers.  collect[t] is the call running   *)
(* on topic t: pc ("idle", "created", "round", "done"), the number of      *)
(* participants passed, the submission being voted on (label), the         *)
(* submissions list (compare), and the vote tasks of the round, each with  *)
(* its state and the vote_json the participant returned.                   *)
(***************************************************************************)
Topics == 1..Len(topics)

\* Mutant: gather returns as soon as the first vote task is done.
AllVoteTasksDone_First(c) ==
    \A p \in DOMAIN c.vote_tasks : p = 1 => c.vote_tasks[p].st = "done"

AllVoteTasksDone(c) == \A p \in 1..Len(c.vote_tasks) : c.vote_tasks[p].st = "done"

\* Tasks run in the order they were created: a collect_votes task starts before a
\* task created after it, and before any vote task (created later still) resumes.
FirstCreatedCollect(t) == \A u \in 1..(t - 1) : collect[u].pc # "created"
NoCreatedCollect == \A u \in Topics : collect[u].pc # "created"

\* Mutant: only the first participant is asked for a vote.
NewVoteTasks_FirstOnly(n) ==
    [p \in 1..(IF n > 1 THEN 1 ELSE n) |-> [st |-> "running", vote_json |-> EmptyDict]]

\* asyncio.create_task(...) for participant in participants: every task runs to
\* its await on the participant before any of them is resumed.
NewVoteTasks(n) == [p \in 1..n |-> [st |-> "running", vote_json |-> EmptyDict]]

\* LabelVotingManager.collect_votes: the test of the while loop, at the start of
\* the call and after asyncio.gather of a round returned.
LabelCollectLoop(t) ==
    /\ t \in Topics
    /\ is_label(topics[t].voting_manager.voting_method)
    /\ \/ collect[t].pc = "created" /\ FirstCreatedCollect(t)
       \/ collect[t].pc = "round" /\ AllVoteTasksDone(collect[t])
    /\ LET vm == topics[t].voting_manager
           q  == vm.submissions_needing_votes
       IN IF q = << >>
          THEN /\ collect' = [collect EXCEPT ![t].pc = "done", ![t].vote_tasks = << >>]
               /\ UNCHANGED topics
          ELSE /\ collect' = [collect EXCEPT ![t].pc = "round",
                                             ![t].submission = Head(q),
                                             ![t].vote_tasks = NewVoteTasks(collect[t].participants)]
               /\ topics' = [topics EXCEPT ![t].voting_manager.submissions_needing_votes = Tail(q)]
    /\ UNCHANGED <<participants, max_concurrent, max_subs_per_topic, do_save_results, pc,
                   semaphore, tasks, is_complete, results, saved, exc, vm_calls, vm_ret>>
    /\ UNCHANGED <<rvars, pvars>>

\* Mutant: only the JSON type of the vote is validated, not its range, its enum
\* or its being a permutation.
RecordVote_TypeOnly(vm, vj) ==
    /\ vj.has_vote
    /\ vj.vote.jt = (IF vm.voting_method.type \in {"EnumLabel", "YesNoLabel"} THEN "string"
                     ELSE IF vm.voting_method.type = "ScoreLabel" THEN "integer"
                     ELSE IF vm.voting_method.type = "RankingCompare" THEN "array"
                     ELSE "object")

\* Mutant: a vote that fails the schema is recorded too.
RecordVote_NoValidation(vm, vj) == TRUE

\* `jsonschema.validate(instance=vote_json, schema=self.schema)` passes.
RecordVote(vm, vj) == ValidVote(vm.voting_method, SchemaN(vm), vj)

\* LabelVotingManager.collect_label_vote after the participant answered:
\* jsonschema.validate, then results.add_vote, or the logged ValidationError.
CompleteLabelVote(t, p, vj) ==
    /\ t \in Topics
    /\ is_label(topics[t].voting_manager.voting_method)
    /\ collect[t].pc = "round"
    /\ NoCreatedCollect
    /\ p \in 1..Len(collect[t].vote_tasks)
    /\ collect[t].vote_tasks[p].st = "running"
    /\ collect' = [collect EXCEPT ![t].vote_tasks[p] = [st |-> "done", vote_json |-> vj]]
    /\ topics' = IF RecordVote(topics[t].voting_manager, vj)
                 THEN [topics EXCEPT ![t].voting_manager.results =
                          LabelVotingResults_add_vote(@, p, collect[t].submission.uuid, vj)]
                 ELSE topics
    /\ UNCHANGED <<participants, max_concurrent, max_subs_per_topic, do_save_results, pc,
                   semaphore, tasks, is_complete, results, saved, exc, vm_calls, vm_ret>>
    /\ UNCHANGED <<rvars, pvars>>

\* Mutant: the indices are given in the opposite order.
IndexMap_Reversed(subs) == [x \in 1..Len(subs) |-> subs[Len(subs) + 1 - x].uuid]

\* {i + 1: submissions[i].uuid for i in range(len(submissions))}.
IndexMap(subs) == [x \in 1..Len(subs) |-> subs[x].uuid]

\* CompareVotingManager.collect_votes up to asyncio.gather: get_all_submissions
\* drains the queue and sets the schema for len(submissions); each vote task
\* builds the vote prompt, which sets submission_index_map of the method.
CompareCollectStart(t) ==
    /\ t \in Topics
    /\ ~is_label(topics[t].voting_manager.voting_method)
    /\ collect[t].pc = "created" /\ FirstCreatedCollect(t)
    /\ LET vm   == topics[t].voting_manager
           subs == vm.submissions_needing_votes
       IN /\ topics' = [topics EXCEPT
                ![t].voting_manager.submissions_needing_votes = << >>,
                ![t].voting_manager.schema = Len(subs),
                ![t].voting_manager.submission_index_map =
                    IF collect[t].participants > 0 THEN IndexMap(subs) ELSE @]
          /\ collect' = [collect EXCEPT ![t].pc = "round",
                                        ![t].submissions = subs,
                                        ![t].vote_tasks = NewVoteTasks(collect[t].participants)]
    /\ UNCHANGED <<participants, max_concurrent, max_subs_per_topic, do_save_results, pc,
                   semaphore, tasks, is_complete, results, saved, exc, vm_calls, vm_ret>>
    /\ UNCHANGED <<rvars, pvars>>

\* CompareVotingManager.collect_compare_vote after the participant answered.
CompleteCompareVote(t, p, vj) ==
    /\ t \in Topics
    /\ ~is_label(topics[t].voting_manager.voting_method)
    /\ collect[t].pc = "round"
    /\ NoCreatedCollect
    /\ p \in 1..Len(collect[t].vote_tasks)
    /\ collect[t].vote_tasks[p].st = "running"
    /\ collect' = [collect EXCEPT ![t].vote_tasks[p] = [st |-> "done", vote_json |-> vj]]
    /\ topics' = IF RecordVote(topics[t].voting_manager, vj)
                 THEN [topics EXCEPT ![t].voting_manager.results =
                          CompareVotingResults_add_vote(@, p, vj)]
                 ELSE topics
    /\ UNCHANGED <<participants, max_concurrent, max_subs_per_topic, do_save_results, pc,
                   semaphore, tasks, is_complete, results, saved, exc, vm_calls, vm_ret>>
    /\ UNCHANGED <<rvars, pvars>>

\* CompareVotingManager.collect_votes: asyncio.gather returned.
CompareCollectGathered(t) ==
    /\ t \in Topics
    /\ ~is_label(topics[t].voting_manager.voting_method)
    /\ collect[t].pc = "round"
    /\ AllVoteTasksDone(collect[t])
    /\ collect' = [collect EXCEPT ![t].pc = "done", ![t].vote_tasks = << >>]
    /\ UNCHANGED <<topics, participants, max_concurrent, max_subs_per_topic, do_save_results,
                   pc, semaphore, tasks, is_complete, results, saved, exc, vm_calls, vm_ret>>
    /\ UNCHANGED <<rvars, pvars>>

(***************************************************************************)
(* What participants answer.                                               *)
(***************************************************************************)
\* The identity ranking / the lowest score for every index: a vote that passes
\* the schema of method m for n submissions.
CanonicalVote(m, n) ==
    IF m.type \in {"EnumLabel", "YesNoLabel"} THEN VoteJson(JStr(m.enum_values[1]))
    ELSE IF m.type = "ScoreLabel" THEN VoteJson(JInt(m.start_value))
    ELSE IF m.type = "RankingCompare" THEN VoteJson(JArr([x \in 1..n |-> x]))
    ELSE VoteJson(JObj([x \in 1..n |-> <<x, m.start_value>>]))

\* A payload that fails the vote schema whatever the method.
MalformedVote == VoteJson(JNull)

\* Payloads, valid and invalid, a participant may produce for method m and n
\* submissions.
VotePayloads(m, n) ==
    IF m.type \in {"EnumLabel", "YesNoLabel"}
    THEN {VoteJson(JStr(e)) : e \in Range(m.enum_values) \cup {"other"}}
    ELSE IF m.type = "ScoreLabel"
    THEN {VoteJson(JInt(x)) : x \in (m.start_value - 1)..(m.end_value + 1)}
    ELSE IF m.type = "RankingCompare"
    THEN {VoteJson(JArr(q)) : q \in {f \in [1..n -> 1..n] : Range(f) = 1..n}}
            \cup {VoteJson(JArr([x \in 1..n |-> 1]))}
            \cup {VoteJson(JArr([x \in 1..(n + 1) |-> x]))}
    ELSE {VoteJson(JObj([x \in 1..n |-> <<x, f[x]>>])) :
                f \in [1..n -> m.start_value..m.end_value]}
            \cup {VoteJson(JObj([x \in 1..n |-> <<x, m.end_value + 1>>]))}
            \cup {VoteJson(JObj([x \in 1..(n + 1) |-> <<x, m.start_value>>]))}
            \cup {VoteJson(JObj([x \in 1..(n - 1) |-> <<x, m.start_value>>])) : z \in {n} \ {0}}

\* What get_label_vote_response / get_compare_vote_response return for these
\* payloads: {} when the retry chain failed.
VoteResponses(payloads) ==
    {GetVoteResponse(failed, vj) : failed \in BOOLEAN, vj \in payloads}

\* The participants of a session answer a vote request with the canonical vote,
\* with a malformed payload, or fail.
SessionVoteResponses(t) ==
    VoteResponses({CanonicalVote(topics[t].voting_manager.voting_method,
                                 SchemaN(topics[t].voting_manager)),
                   MalformedVote})

\* {}: what _get_submission_response returns when the chain gave None.
EmptyResponse == [isNone |-> FALSE, schema_ok |-> FALSE, custom_ok |-> FALSE, n |-> 0]

\* LLMAgentParticipant._get_submission_response.
GetSubmissionResponse(json) == IF json = None THEN EmptyResponse ELSE json

\* Mutant: create_submission builds a Submission whatever the response.
create_submission_Unchecked(json, uuid, participant) == Submission(uuid, participant)

\* LLMAgentParticipant.create_submission: None (here NoSubmission) when the
\* response is falsy, a new Submission otherwise.
create_submission(json, uuid, participant) ==
    LET submission_response == GetSubmissionResponse(json)
    IN IF submission_response.isNone \/ submission_response = EmptyResponse
       THEN NoSubmission
       ELSE Submission(uuid, participant)

\* What send_prompt_with_retries returns to _get_submission_response: None, or a
\* response that passed the validation steps.
SubmissionChainResults == {None, Payload(TRUE, TRUE, 1)}

(***************************************************************************)
(* Session.run.  pc is the position of the coroutine: "spawn" and          *)
(* "holding" in the loops of gather_submissions, "await_submissions" and   *)
(* "await_votes" at the two asyncio.gather calls, then "gather_results",   *)
(* "conclude", "save_results", and "done" or "raised".  tasks[i] is the    *)
(* i-th task created by gather_submissions; the Submission it creates gets *)
(* uuid i.                                                                 *)
(***************************************************************************)
\* Mutant: gather_submissions creates its tasks per participant, whatever the
\* topics.
TotalTasks_PerParticipant == participants * max_subs_per_topic

TotalTasks == Len(topics) * participants * max_subs_per_topic

\* The topic and the participant of the i-th iteration of
\* `for topic ... for participant ... for _ in range(max_subs_per_topic)`.
TaskTopic(i) == ((i - 1) \div (participants * max_subs_per_topic)) + 1
TaskParticipant(i) == (((i - 1) \div max_subs_per_topic) % participants) + 1

\* `async with semaphore:` entered; the semaphore is free again at every
\* iteration, so acquire returns without suspending.
SemaphoreAcquire ==
    /\ pc = "spawn"
    /\ Len(tasks) < TotalTasks
    /\ semaphore > 0
    /\ semaphore' = semaphore - 1
    /\ pc' = "holding"
    /\ UNCHANGED <<topics, participants, max_concurrent, max_subs_per_topic, do_save_results,
                   tasks, collect, is_complete, results, saved, exc, vm_calls, vm_ret>>
    /\ UNCHANGED <<rvars, pvars>>

\* The body of the `async with`: asyncio.create_task and tasks.append; leaving the
\* block releases the semaphore.  The task has not run yet.
CreateTask ==
    /\ pc = "holding"
    /\ tasks' = Append(tasks, [topic |-> TaskTopic(Len(tasks) + 1),
                               participant |-> TaskParticipant(Len(tasks) + 1),
                               st |-> "created", json |-> None, accepted |-> FALSE])
    /\ semaphore' = semaphore + 1
    /\ pc' = "spawn"
    /\ UNCHANGED <<topics, participants, max_concurrent, max_subs_per_topic, do_save_results,
                   collect, is_complete, results, saved, exc, vm_calls, vm_ret>>
    /\ UNCHANGED <<rvars, pvars>>

\* The loops are over: `await asyncio.gather(*tasks)` suspends Session.run.
AwaitSubmissionTasks ==
    /\ pc = "spawn"
    /\ Len(tasks) = TotalTasks
    /\ pc' = "await_submissions"
    /\ UNCHANGED <<topics, participants, max_concurrent, max_subs_per_topic, do_save_results,
                   semaphore, tasks, collect, is_complete, results, saved, exc, vm_calls, vm_ret>>
    /\ UNCHANGED <<rvars, pvars>>

\* Session.run is suspended in gather and the event loop runs the tasks.
Suspended == pc \in {"await_submissions", "await_votes"}

\* create_submission_task runs, in creation order, up to
\* `await participant.create_submission(topic)`.
StartSubmissionTask(i) ==
    /\ Suspended
    /\ i \in 1..Len(tasks)
    /\ tasks[i].st = "created"
    /\ \A j \in 1..(i - 1) : tasks[j].st # "created"
    /\ tasks' = [tasks EXCEPT ![i].st = "running"]
    /\ UNCHANGED <<topics, participants, max_concurrent, max_subs_per_topic, do_save_results,
                   pc, semaphore, collect, is_complete, results, saved, exc, vm_calls, vm_ret>>
    /\ UNCHANGED <<rvars, pvars>>

\* The participant answered: create_submission returns, and
\* `if submission is not None: await topic.add_submission(submission)`.
CompleteSubmissionTask(i, json, accepted) ==
    /\ Suspended
    /\ i \in 1..Len(tasks)
    /\ tasks[i].st = "running"
    /\ \A j \in 1..Len(tasks) : tasks[j].st # "created"
    /\ LET t          == tasks[i].topic
           submission == create_submission(json, i, tasks[i].participant)
       IN /\ accepted \in (IF submission = NoSubmission THEN {FALSE} ELSE BOOLEAN)
          /\ topics' = IF submission # NoSubmission
                       THEN [topics EXCEPT ![t] = Topic_add_submission(@, submission, accepted)]
                       ELSE topics
    /\ tasks' = [tasks EXCEPT ![i].st = "done", ![i].json = json, ![i].accepted = accepted]
    /\ UNCHANGED <<participants, max_concurrent, max_subs_per_topic, do_save_results,
                   pc, semaphore, collect, is_complete, results, saved, exc, vm_calls, vm_ret>>
    /\ UNCHANGED <<rvars, pvars>>

\* Mutant: gather_submissions returns without awaiting its tasks.
GatherReturned_NoAwait(ts) == TRUE

\* `await asyncio.gather(*tasks)` returns when every task is done.
GatherReturned(ts) == \A i \in 1..Len(ts) : ts[i].st = "done"

\* gather_submissions returned; collect_all_votes creates one task per topic and
\* suspends in its own gather.
SubmissionsGathered ==
    /\ pc = "await_submissions"
    /\ GatherReturned(tasks)
    /\ pc' = "await_votes"
    /\ collect' = [t \in Topics |-> [IdleCollect EXCEPT !.pc = "created",
                                                        !.participants = participants]]
    /\ UNCHANGED <<topics, participants, max_concurrent, max_subs_per_topic, do_save_results,
                   semaphore, tasks, is_complete, results, saved, exc, vm_calls, vm_ret>>
    /\ UNCHANGED <<rvars, pvars>>

\* collect_all_votes returned: every _collect_votes_with_logging task is done.
VotesGathered ==
    /\ pc = "await_votes"
    /\ \A t \in Topics : collect[t].pc = "done"
    /\ pc' = "gather_results"
    /\ UNCHANGED <<topics, participants, max_concurrent, max_subs_per_topic, do_save_results,
                   semaphore, tasks, collect, is_complete, results, saved, exc, vm_calls, vm_ret>>
    /\ UNCHANGED <<rvars, pvars>>

\* The topics whose get_results raises, in the state gather_results runs in.
RaisingTopics == {t \in Topics : VotingManager_process(topics[t].voting_manager).err # ""}

\* The number of topics gather_results appends before it returns or raises.
TopicsGathered ==
    IF RaisingTopics = {} THEN Len(topics)
    ELSE (CHOOSE t \in RaisingTopics : \A u \in RaisingTopics : t <= u) - 1

\* Session.gather_results: self.results is rebuilt, then for every topic in order
\* get_results is called and the topic data appended.  An exception of
\* get_results leaves gather_results and Session.run.
GatherResults ==
    /\ pc = "gather_results"
    /\ results' = [built |-> TRUE,
                   topics |-> [t \in 1..TopicsGathered |->
                                 [topic |-> t,
                                  voting_results |->
                                      VotingManager_process(topics[t].voting_manager).agg]]]
    /\ topics' = [t \in Topics |->
                    IF t <= TopicsGathered
                    THEN [topics[t] EXCEPT !.voting_manager.results.aggregated_results =
                              VotingManager_process(topics[t].voting_manager).agg]
                    ELSE topics[t]]
    /\ IF RaisingTopics = {}
       THEN pc' = "conclude" /\ exc' = exc
       ELSE /\ pc' = "raised"
            /\ exc' = VotingManager_process(topics[TopicsGathered + 1].voting_manager).err
    /\ UNCHANGED <<participants, max_concurrent, max_subs_per_topic, do_save_results,
                   semaphore, tasks, collect, is_complete, saved, vm_calls, vm_ret>>
    /\ UNCHANGED <<rvars, pvars>>

\* Session.conclude: is_complete is set, then `if self.do_save_results`.
Conclude ==
    /\ pc = "conclude"
    /\ is_complete' = TRUE
    /\ pc' = IF do_save_results THEN "save_results" ELSE "done"
    /\ UNCHANGED <<topics, participants, max_concurrent, max_subs_per_topic, do_save_results,
                   semaphore, tasks, collect, results, saved, exc, vm_calls, vm_ret>>
    /\ UNCHANGED <<rvars, pvars>>

\* Session.save_results: json.dump(self.results, f).
SaveResults ==
    /\ pc = "save_results"
    /\ saved' = TRUE
    /\ pc' = "done"
    /\ UNCHANGED <<topics, participants, max_concurrent, max_subs_per_topic, do_save_results,
                   semaphore, tasks, collect, is_complete, results, exc, vm_calls, vm_ret>>
    /\ UNCHANGED <<rvars, pvars>>

\* No retry chain is modelled step by step in a session: a chain is its result.
IdleRetry ==
    /\ rp_pc = "none"
    /\ rp_kind = "none"
    /\ rp_arg_max = 0
    /\ rp_max = 0
    /\ rp_attempt = 0
    /\ rp_prompt = << >>
    /\ rp_requests = << >>
    /\ rp_sent = << >>
    /\ rp_responses = << >>
    /\ rp_failed = << >>
    /\ rp_result = None

\* The voting methods of the topics of a session.
SessionMethods == {YesNoLabel, RankingCompare}

\* Session.__init__ and add_topic for every topic of the configuration, up to the
\* call of Session.run.
Init ==
    /\ IdleRetry
    /\ IdleProcess
    /\ \E n \in 0..MaxTopics : \E ms \in [1..n -> SessionMethods] :
          topics = [t \in 1..n |-> NewTopic(ms[t])]
    /\ participants \in 0..MaxParticipants
    /\ max_concurrent \in 1..MaxConcurrent
    /\ max_subs_per_topic \in 1..MaxSubsPerTopic
    /\ TotalTasks * participants <= MaxBallots
    /\ do_save_results \in BOOLEAN
    /\ pc = "spawn"
    /\ semaphore = max_concurrent
    /\ tasks = << >>
    /\ collect = [t \in Topics |-> IdleCollect]
    /\ is_complete = FALSE
    /\ results = [built |-> FALSE, topics |-> << >>]
    /\ saved = FALSE
    /\ exc = ""
    /\ vm_calls = NoCalls
    /\ vm_ret = NoReturn

Next ==
    \/ SemaphoreAcquire
    \/ CreateTask
    \/ AwaitSubmissionTasks
    \/ \E i \in 1..Len(tasks) : StartSubmissionTask(i)
    \/ \E i \in 1..Len(tasks), json \in SubmissionChainResults, accepted \in BOOLEAN :
          CompleteSubmissionTask(i, json, accepted)
    \/ SubmissionsGathered
    \/ \E t \in Topics : LabelCollectLoop(t)
    \/ \E t \in Topics, p \in 1..participants : \E vj \in SessionVoteResponses(t) :
          CompleteLabelVote(t, p, vj)
    \/ \E t \in Topics : CompareCollectStart(t)
    \/ \E t \in Topics, p \in 1..participants : \E vj \in SessionVoteResponses(t) :
          CompleteCompareVote(t, p, vj)
    \/ \E t \in Topics : CompareCollectGathered(t)
    \/ VotesGathered
    \/ GatherResults
    \/ Conclude
    \/ SaveResults

Spec == Init /\ [][Next]_vars

(***************************************************************************)
(* One voting manager driven directly: add_submission, collect_votes and   *)
(* get_results in any order, between the calls of collect_votes.           *)
(***************************************************************************)
\* VotingManager.add_submission(submission) for a new Submission of participant p.
\* The ballots a round can ask for (submissions times participants) are bounded.
VM_add_submission(p) ==
    /\ pc = "vm"
    /\ vm_calls.adds < MaxVMSubmissions
    /\ (vm_calls.adds + 1) * participants <= MaxBallots
    /\ topics' = [topics EXCEPT ![1].voting_manager =
                     VotingManager_add_submission(@, Submission(vm_calls.adds + 1, p))]
    /\ vm_calls' = [vm_calls EXCEPT !.adds = @ + 1]
    /\ vm_ret' = [vm_ret EXCEPT !.fresh = FALSE, !.repeat = FALSE]
    /\ UNCHANGED <<participants, max_concurrent, max_subs_per_topic, do_save_results, pc,
                   semaphore, tasks, collect, is_complete, results, saved, exc>>
    /\ UNCHANGED <<rvars, pvars>>

\* collect_votes(participants) is called; it runs up to its first suspension when
\* the event loop schedules it.
VM_collect_votes ==
    /\ pc = "vm"
    /\ collect[1].pc \in {"idle", "done"}
    /\ vm_calls.collects < MaxVMCollects
    /\ collect' = [collect EXCEPT ![1] = [IdleCollect EXCEPT !.pc = "created",
                                                             !.participants = participants]]
    /\ vm_calls' = [vm_calls EXCEPT !.collects = @ + 1]
    /\ vm_ret' = [vm_ret EXCEPT !.fresh = FALSE, !.repeat = FALSE]
    /\ UNCHANGED <<topics, participants, max_concurrent, max_subs_per_topic, do_save_results,
                   pc, semaphore, tasks, is_complete, results, saved, exc>>
    /\ UNCHANGED <<rvars, pvars>>

\* get_results(): process_votes stores aggregated_results unless it raises;
\* vm_ret is what the caller sees, fresh until the manager is used again; repeat
\* says the call was made while the previous return was still fresh.
VM_get_results ==
    /\ pc = "vm"
    /\ collect[1].pc \in {"idle", "done"}
    /\ LET r == VotingManager_process(topics[1].voting_manager)
       IN /\ vm_ret' = [called |-> TRUE, fresh |-> TRUE, repeat |-> vm_ret.fresh,
                        err |-> r.err, agg |-> r.agg]
          /\ topics' = IF r.err = ""
                       THEN [topics EXCEPT ![1].voting_manager.results.aggregated_results = r.agg]
                       ELSE topics
    /\ UNCHANGED <<participants, max_concurrent, max_subs_per_topic, do_save_results, pc,
                   semaphore, tasks, collect, is_complete, results, saved, exc, vm_calls>>
    /\ UNCHANGED <<rvars, pvars>>

\* The voting methods a manager is created for.
VMMethods == {YesNoLabel, EnumLabel(<<"a", "b", "c">>), ScoreLabel(1, 2),
              RankingCompare, ScoreCompare(1, 2)}

\* What a participant returns for a vote request of the manager.
VMVoteResponses ==
    VoteResponses(VotePayloads(topics[1].voting_manager.voting_method,
                               SchemaN(topics[1].voting_manager)))

\* VotingManagerFactory.create_voting_manager for a topic.
InitVM ==
    /\ IdleRetry
    /\ IdleProcess
    /\ \E m \in VMMethods : topics = <<NewTopic(m)>>
    /\ participants \in 0..MaxParticipants
    /\ max_concurrent = 1
    /\ max_subs_per_topic = 1
    /\ do_save_results = FALSE
    /\ pc = "vm"
    /\ semaphore = 0
    /\ tasks = << >>
    /\ collect = <<IdleCollect>>
    /\ is_complete = FALSE
    /\ results = [built |-> FALSE, topics |-> << >>]
    /\ saved = FALSE
    /\ exc = ""
    /\ vm_calls = NoCalls
    /\ vm_ret = NoReturn

NextVM ==
    \/ VM_add_submission(1)
    \/ VM_collect_votes
    \/ VM_get_results
    \/ LabelCollectLoop(1)
    \/ \E p \in 1..participants : \E vj \in VMVoteResponses : CompleteLabelVote(1, p, vj)
    \/ CompareCollectStart(1)
    \/ \E p \in 1..participants : \E vj \in VMVoteResponses : CompleteCompareVote(1, p, vj)
    \/ CompareCollectGathered(1)

SpecVM == InitVM /\ [][NextVM]_vars

(***************************************************************************)
(* One VotingResults object used directly, as the unit tests of the voting *)
(* methods do: add_vote called with any payload for any participant.       *)
(***************************************************************************)
\* A second vote that passes the schema of method m for n submissions: the
\* second enum value, the highest score, the reversed ranking.
SecondVote(m, n) ==
    IF m.type \in {"EnumLabel", "YesNoLabel"} THEN VoteJson(JStr(m.enum_values[2]))
    ELSE IF m.type = "ScoreLabel" THEN VoteJson(JInt(m.end_value))
    ELSE IF m.type = "RankingCompare" THEN VoteJson(JArr([x \in 1..n |-> n + 1 - x]))
    ELSE VoteJson(JObj([x \in 1..n |-> <<x, m.end_value>>]))

\* A vote of the right JSON type that fails the schema: an unknown label, a score
\* above the maximum, a ranking one too long that repeats an index.
OutOfRangeVote(m, n) ==
    IF m.type \in {"EnumLabel", "YesNoLabel"} THEN VoteJson(JStr("other"))
    ELSE IF m.type = "ScoreLabel" THEN VoteJson(JInt(m.end_value + 1))
    ELSE IF m.type = "RankingCompare" THEN VoteJson(JArr([x \in 1..(n + 1) |-> 1]))
    ELSE VoteJson(JObj([x \in 1..n |-> <<x, m.end_value + 1>>]))

\* The payloads add_vote is called with.
ResultsPayloads(m) ==
    {CanonicalVote(m, MaxVMSubmissions), SecondVote(m, MaxVMSubmissions),
     OutOfRangeVote(m, MaxVMSubmissions)}

\* results.add_vote(participant_id, {submission_id: vote_json}) on label results,
\* results.add_vote(participant_id, vote_json) on compare results (sid is 0).
Results_add_vote(p, sid, vj) ==
    /\ pc = "results"
    /\ Len(vm_calls.votes) < MaxAddVotes
    /\ topics' = [topics EXCEPT ![1].voting_manager.results =
                     IF is_label(topics[1].voting_manager.voting_method)
                     THEN LabelVotingResults_add_vote(@, p, sid, vj)
                     ELSE CompareVotingResults_add_vote(@, p, vj)]
    /\ vm_calls' = [vm_calls EXCEPT !.votes =
                       Append(@, [participant |-> p, submission |-> sid, vote_json |-> vj])]
    /\ vm_ret' = NoReturn
    /\ UNCHANGED <<participants, max_concurrent, max_subs_per_topic, do_save_results, pc,
                   semaphore, tasks, collect, is_complete, results, saved, exc>>
    /\ UNCHANGED <<rvars, pvars>>

\* The voting methods results objects are filled for.
ResultsMethods == {YesNoLabel, ScoreLabel(1, 2), RankingCompare, ScoreCompare(1, 2)}

\* LabelVotingResults() or CompareVotingResults(), as initialize_results makes it.
InitResults ==
    /\ IdleRetry
    /\ IdleProcess
    /\ \E m \in ResultsMethods : topics = <<NewTopic(m)>>
    /\ participants = MaxParticipants
    /\ max_concurrent = 1
    /\ max_subs_per_topic = 1
    /\ do_save_results = FALSE
    /\ pc = "results"
    /\ semaphore = 0
    /\ tasks = << >>
    /\ collect = <<IdleCollect>>
    /\ is_complete = FALSE
    /\ results = [built |-> FALSE, topics |-> << >>]
    /\ saved = FALSE
    /\ exc = ""
    /\ vm_calls = NoCalls
    /\ vm_ret = NoReturn

NextResults ==
    \/ \E p \in 1..participants, sid \in 1..MaxVMSubmissions :
          \E vj \in ResultsPayloads(topics[1].voting_manager.voting_method) :
             /\ is_label(topics[1].voting_manager.voting_method)
             /\ p * sid <= MaxBallots
             /\ Results_add_vote(p, sid, vj)
    \/ \E p \in 1..participants :
          \E vj \in ResultsPayloads(topics[1].voting_manager.voting_method) :
             /\ ~is_label(topics[1].voting_manager.voting_method)
             /\ Results_add_vote(p, 0, vj)

SpecResults == InitResults /\ [][NextResults]_vars

(***************************************************************************)
(* One voting method used directly on a results object, with the fixtures  *)
(* of the unit tests of the voting methods: votes are added with add_vote  *)
(* and voting_method.process_votes(voting_results, submission_ids) is      *)
(* called at any time.                                                     *)
(***************************************************************************)
\* The methods of the fixtures: EnumLabel(["Option1", "Option2", "Option3"]),
\* YesNoLabel(), ScoreLabel(1, 10), RankingCompare(), ScoreCompare(1, 10).
TestMethods ==
    {EnumLabel(<<"Option1", "Option2", "Option3">>), YesNoLabel, ScoreLabel(1, 10),
     RankingCompare, ScoreCompare(1, 10)}

\* submission_ids of the tests: three submissions for RankingCompare, two for
\* the other methods.
TestSubmissionIds(m) == IF m.type = "RankingCompare" THEN <<1, 2, 3>> ELSE <<1, 2>>

\* participant1, participant2, participant3.
TestParticipants == {1, 2, 3}

\* The votes of the tests.
TestVotes(m) ==
    IF m.type = "EnumLabel" THEN {VoteJson(JStr("Option1")), VoteJson(JStr("Option2"))}
    ELSE IF m.type = "YesNoLabel" THEN {VoteJson(JStr("yes")), VoteJson(JStr("no"))}
    ELSE IF m.type = "ScoreLabel" THEN {VoteJson(JInt(5)), VoteJson(JInt(3)), VoteJson(JInt(4))}
    ELSE IF m.type = "RankingCompare"
    THEN {VoteJson(JArr(<<1, 2, 3>>)), VoteJson(JArr(<<2, 1, 3>>)), VoteJson(JArr(<<3, 2, 1>>))}
    ELSE {VoteJson(JObj(<<<<1, 3>>, <<2, 5>>>>)), VoteJson(JObj(<<<<1, 1>>, <<2, 6>>>>)),
          VoteJson(JObj(<<<<1, 2>>, <<2, 7>>>>))}

\* voting_method.process_votes(voting_results, submission_ids): vm_ret is the
\* dict returned or the exception raised; the caller drops it at the next
\* add_vote.
Method_process_votes ==
    /\ pc = "results"
    /\ LET vm == topics[1].voting_manager
           r  == process_votes(vm.voting_method, vm.submission_index_map, vm.results,
                               vm.submission_ids)
       IN vm_ret' = [called |-> TRUE, fresh |-> TRUE, repeat |-> FALSE,
                     err |-> r.err, agg |-> r.agg]
    /\ UNCHANGED <<topics, participants, max_concurrent, max_subs_per_topic, do_save_results,
                   pc, semaphore, tasks, collect, is_complete, results, saved, exc, vm_calls>>
    /\ UNCHANGED <<rvars, pvars>>

\* The set-up of a test: the method, the submission ids, get_vote_prompt of a
\* compare method (which fills submission_index_map), an empty results object.
InitMethod ==
    /\ IdleRetry
    /\ IdleProcess
    /\ \E m \in TestMethods :
          topics = <<[NewTopic(m) EXCEPT
                        !.voting_manager.submission_ids = TestSubmissionIds(m),
                        !.voting_manager.submission_index_map =
                            IF is_label(m) THEN << >> ELSE TestSubmissionIds(m)]>>
    /\ participants = Cardinality(TestParticipants)
    /\ max_concurrent = 1
    /\ max_subs_per_topic = 1
    /\ do_save_results = FALSE
    /\ pc = "results"
    /\ semaphore = 0
    /\ tasks = << >>
    /\ collect = <<IdleCollect>>
    /\ is_complete = FALSE
    /\ results = [built |-> FALSE, topics |-> << >>]
    /\ saved = FALSE
    /\ exc = ""
    /\ vm_calls = NoCalls
    /\ vm_ret = NoReturn

NextMethod ==
    \/ \E p \in TestParticipants :
          \E sid \in Range(topics[1].voting_manager.submission_ids) :
             \E vj \in TestVotes(topics[1].voting_manager.voting_method) :
                /\ is_label(topics[1].voting_manager.voting_method)
                /\ Results_add_vote(p, sid, vj)
    \/ \E p \in TestParticipants :
          \E vj \in TestVotes(topics[1].voting_manager.voting_method) :
             /\ ~is_label(topics[1].voting_manager.voting_method)
             /\ Results_add_vote(p, 0, vj)
    \/ Method_process_votes

SpecMethod == InitMethod /\ [][NextMethod]_vars

(***************************************************************************)
(* One Topic built and used directly.  A content schema is a record with   *)
(* its "type" keyword; a content is a JSON value.                          *)
(***************************************************************************)
\* SchemaFactory.OBJECT_TYPES of models/schema_factory.py, the module topic.py
\* imports SchemaFactory from.
OBJECT_TYPES == {"vote", "submission", "topic"}

\* The values of "type" the Draft 7 metaschema allows.
SimpleTypes == {"array", "boolean", "integer", "null", "number", "object", "string"}

ContentSchema(type) == [type |-> type]

\* The attribute submission_content_schema was not assigned yet.
NoSchema == ContentSchema("unset")

\* Draft7Validator.check_schema(schema) raises no SchemaError.
check_schema(schema) == schema.type \in SimpleTypes

\* SchemaFactory.validate_schema: the exception raised, "" for none.
SchemaFactory_validate_schema(schema) ==
    IF check_schema(schema) THEN "" ELSE "ValueError: Invalid schema"

\* SchemaFactory.create_object_schema(object_type, object_schema): the exception
\* raised, "" for none.  The wrapping schema is valid when object_schema is.
SchemaFactory_create_object_schema(object_type, object_schema) ==
    IF object_type \notin OBJECT_TYPES
    THEN "ValueError: Unsupported object_type for schema"
    ELSE SchemaFactory_validate_schema(object_schema)

\* Mutant: the schema is stored before it is checked.
Topic_set_submission_content_schema_StoreFirst(topic, schema) ==
    [err   |-> SchemaFactory_create_object_schema("content", schema),
     topic |-> [topic EXCEPT !.submission_content_schema = schema]]

\* Topic.set_submission_content_schema: create_object_schema("content", schema),
\* validate_schema of its result, then the assignment.
Topic_set_submission_content_schema(topic, schema) ==
    LET err == SchemaFactory_create_object_schema("content", schema)
    IN IF err # ""
       THEN [err |-> err, topic |-> topic]
       ELSE [err |-> "", topic |-> [topic EXCEPT !.submission_content_schema = schema]]

\* The names register_voting_method put in _voting_method_registry.
voting_method_registry == {"EnumLabel", "YesNoLabel", "RankingCompare", "ScoreLabel", "ScoreCompare"}

\* Mutant: an unknown name is accepted.
get_voting_method_Lenient(voting_method_name) == ""

\* get_voting_method: the exception raised, "" for none.
get_voting_method(voting_method_name) ==
    IF voting_method_name \notin voting_method_registry
    THEN "ValueError: Voting method is not registered"
    ELSE ""

\* voting_method_class(**kwargs) for the names used without configuration.
VotingMethodNamed(voting_method_name) ==
    IF voting_method_name = "YesNoLabel" THEN YesNoLabel ELSE RankingCompare

\* A Topic with its content schema attribute.
TopicWithSchema(m, schema) ==
    [submissions |-> << >>, voting_manager |-> NewVotingManager(m),
     submission_content_schema |-> schema]

\* Topic.__init__(voting_method=..., submission_content_schema=schema):
\* create_voting_manager, set_submission_validator, then
\* set_submission_content_schema.  made is the Topic the caller gets, none when
\* an exception leaves the constructor.
Topic_init(voting_method, schema) ==
    IF get_voting_method(voting_method) # ""
    THEN [err |-> get_voting_method(voting_method), made |-> << >>]
    ELSE LET r == Topic_set_submission_content_schema(
                      TopicWithSchema(VotingMethodNamed(voting_method), NoSchema), schema)
         IN IF r.err # ""
            THEN [err |-> r.err, made |-> << >>]
            ELSE [err |-> "", made |-> <<r.topic>>]

\* Submission(topic, participant, content).
SubmissionWithContent(uuid, participant, content) ==
    [uuid |-> uuid, participant |-> participant, content |-> content]

\* One call made on the topic.
TopicCall(op, voting_method, schema, content, accepted) ==
    [op |-> op, voting_method |-> voting_method, schema |-> schema,
     content |-> content, accepted |-> accepted]

\* Topic(...) is called; exc is the exception that left the call.
CallTopicInit(voting_method, schema) ==
    /\ pc = "topic"
    /\ topics = << >>
    /\ Len(vm_calls.calls) < MaxTopicCalls
    /\ topics' = Topic_init(voting_method, schema).made
    /\ exc' = Topic_init(voting_method, schema).err
    /\ vm_calls' = [vm_calls EXCEPT !.calls =
                       Append(@, TopicCall("init", voting_method, schema, JNull, FALSE))]
    /\ UNCHANGED <<participants, max_concurrent, max_subs_per_topic, do_save_results, pc,
                   semaphore, tasks, collect, is_complete, results, saved, vm_ret>>
    /\ UNCHANGED <<rvars, pvars>>

\* topic.set_submission_content_schema(schema) is called.
CallSetSubmissionContentSchema(schema) ==
    /\ pc = "topic"
    /\ topics # << >>
    /\ Len(vm_calls.calls) < MaxTopicCalls
    /\ topics' = <<Topic_set_submission_content_schema(topics[1], schema).topic>>
    /\ exc' = Topic_set_submission_content_schema(topics[1], schema).err
    /\ vm_calls' = [vm_calls EXCEPT !.calls =
                       Append(@, TopicCall("set_submission_content_schema", "", schema,
                                           JNull, FALSE))]
    /\ UNCHANGED <<participants, max_concurrent, max_subs_per_topic, do_save_results, pc,
                   semaphore, tasks, collect, is_complete, results, saved, vm_ret>>
    /\ UNCHANGED <<rvars, pvars>>

\* await topic.add_submission(Submission(topic, participant, content)); accepted
\* is what submission_validator returns for the submission.
CallAddSubmission(p, content, accepted) ==
    /\ pc = "topic"
    /\ topics # << >>
    /\ Len(vm_calls.calls) < MaxTopicCalls
    /\ topics' = <<Topic_add_submission(
                      topics[1], SubmissionWithContent(vm_calls.adds + 1, p, content), accepted)>>
    /\ exc' = ""
    /\ vm_calls' = [vm_calls EXCEPT !.adds = @ + 1,
                                    !.calls = Append(@, TopicCall("add_submission", "",
                                                                  NoSchema, content, accepted))]
    /\ UNCHANGED <<participants, max_concurrent, max_subs_per_topic, do_save_results, pc,
                   semaphore, tasks, collect, is_complete, results, saved, vm_ret>>
    /\ UNCHANGED <<rvars, pvars>>

\* The voting method names, the schemas and the contents the calls are made with:
\* two registered names and an unknown one; the default schema {"type": "string"},
\* an object schema and the malformed {"type": "invalid_type"}.
TopicMethodNames == {"YesNoLabel", "RankingCompare", "Unknown"}
TopicSchemas == {ContentSchema("string"), ContentSchema("object"), ContentSchema("invalid_type")}
TopicContents == {JStr("text"), JInt(5)}

\* No Topic yet, or a Topic with the attributes __init__ assigns, as the
\* operations on a topic take it.
InitTopic ==
    /\ IdleRetry
    /\ IdleProcess
    /\ \/ topics = << >>
       \/ \E name \in TopicMethodNames \cap voting_method_registry :
             \E schema \in {x \in TopicSchemas : check_schema(x)} :
                topics = <<TopicWithSchema(VotingMethodNamed(name), schema)>>
    /\ participants = 1
    /\ max_concurrent = 1
    /\ max_subs_per_topic = 1
    /\ do_save_results = FALSE
    /\ pc = "topic"
    /\ semaphore = 0
    /\ tasks = << >>
    /\ collect = << >>
    /\ is_complete = FALSE
    /\ results = [built |-> FALSE, topics |-> << >>]
    /\ saved = FALSE
    /\ exc = ""
    /\ vm_calls = NoCalls
    /\ vm_ret = NoReturn

NextTopic ==
    \/ \E name \in TopicMethodNames, schema \in TopicSchemas : CallTopicInit(name, schema)
    \/ \E schema \in TopicSchemas : CallSetSubmissionContentSchema(schema)
    \/ \E content \in TopicContents, accepted \in BOOLEAN :
          CallAddSubmission(1, content, accepted)

SpecTopic == InitTopic /\ [][NextTopic]_vars

(***************************************************************************)
(* One Process and its sessions.  A session is numbered in the order of    *)
(* its creation; Session.run is taken by its outcome: it returns after     *)
(* conclude, or an exception leaves it, before conclude (is_complete still *)
(* False) or in save_results (is_complete already True).  proc_pc is the  *)
(* position of the owner of the process: "call" before a call, "loop" at   *)
(* the test of the while loop of run_all_sessions, "running" at            *)
(* `await self.current_session.run()` under run_all_sessions and           *)
(* "next_running" under a run_next_session call of the owner, then         *)
(* "returned" (run_all_sessions returned) or "raised".                     *)
(***************************************************************************)
\* SessionFactory.create_session: a session that has not run.
NewSession == [is_complete |-> FALSE, runs |-> 0]

\* Process.add_session(session_config), called by another coroutine while
\* run_all_sessions is not running synchronous code.
Process_add_session ==
    /\ proc_pc \in {"call", "running", "next_running"}
    /\ Len(sessions) < MaxSessions
    /\ sessions' = Append(sessions, NewSession)
    /\ pending_sessions' = Append(pending_sessions, Len(sessions) + 1)
    /\ proc_exc' = ""
    /\ UNCHANGED <<current_session, completed_sessions, proc_pc>>
    /\ UNCHANGED <<rvars, svars>>

\* run_all_sessions() is called.
CallRunAllSessions ==
    /\ proc_pc = "call"
    /\ proc_pc' = "loop"
    /\ proc_exc' = ""
    /\ UNCHANGED <<sessions, pending_sessions, current_session, completed_sessions>>
    /\ UNCHANGED <<rvars, svars>>

\* Mutant: the session added last is run first.
NextPending_Last(pending) == pending[Len(pending)]

\* pending_sessions.popleft(): the session taken.
NextPending(pending) == Head(pending)

\* run_next_session up to `await self.current_session.run()`: the guard, then
\* popleft when a session is pending; `awaiting` is the position at the await,
\* `back` the position of the caller when there is nothing to run.
run_next_session_begin(awaiting, back) ==
    IF current_session # 0 /\ ~sessions[current_session].is_complete
    THEN /\ proc_pc' = "raised"
         /\ proc_exc' = "Exception: Current session is still running"
         /\ UNCHANGED <<sessions, pending_sessions, current_session>>
    ELSE IF pending_sessions # << >>
    THEN /\ current_session' = NextPending(pending_sessions)
         /\ pending_sessions' = Tail(pending_sessions)
         /\ sessions' = [sessions EXCEPT ![NextPending(pending_sessions)].runs = @ + 1]
         /\ proc_pc' = awaiting
         /\ UNCHANGED proc_exc
    ELSE /\ proc_pc' = back
         /\ UNCHANGED <<sessions, pending_sessions, current_session, proc_exc>>

\* `while self.pending_sessions: await self.run_next_session()`, up to the await
\* on the session or to the return of run_all_sessions.
RunNextSession ==
    /\ proc_pc = "loop"
    /\ IF pending_sessions = << >>
       THEN /\ proc_pc' = "returned"
            /\ UNCHANGED <<sessions, pending_sessions, current_session, proc_exc>>
       ELSE run_next_session_begin("running", "loop")
    /\ UNCHANGED completed_sessions
    /\ UNCHANGED <<rvars, svars>>

\* run_next_session() called by the owner of the process in place of
\* run_all_sessions, one session at a time.
CallRunNextSession ==
    /\ proc_pc = "call"
    /\ run_next_session_begin("next_running", "call")
    /\ UNCHANGED completed_sessions
    /\ UNCHANGED <<rvars, svars>>

\* Session.run returned: conclude has set is_complete; the session is appended to
\* completed_sessions and current_session is None again.
SessionRunReturns ==
    /\ proc_pc \in {"running", "next_running"}
    /\ sessions' = [sessions EXCEPT ![current_session].is_complete = TRUE]
    /\ completed_sessions' = Append(completed_sessions, current_session)
    /\ current_session' = 0
    /\ proc_pc' = IF proc_pc = "running" THEN "loop" ELSE "call"
    /\ UNCHANGED <<pending_sessions, proc_exc>>
    /\ UNCHANGED <<rvars, svars>>

\* An exception leaves Session.run and the calls above it: ZeroDivisionError of
\* gather_results before conclude, or an OSError of save_results after conclude
\* has set is_complete.
SessionRunRaises(concluded) ==
    /\ proc_pc \in {"running", "next_running"}
    /\ sessions' = [sessions EXCEPT ![current_session].is_complete = concluded]
    /\ proc_pc' = "raised"
    /\ proc_exc' = IF concluded THEN "OSError" ELSE "ZeroDivisionError"
    /\ UNCHANGED <<pending_sessions, current_session, completed_sessions>>
    /\ UNCHANGED <<rvars, svars>>

\* run_next_session() called by another coroutine while the current session
\* runs: the guard raises and nothing changes.
OtherRunNextSession ==
    /\ proc_pc \in {"running", "next_running"}
    /\ current_session # 0 /\ ~sessions[current_session].is_complete
    /\ proc_exc = ""
    /\ proc_exc' = "Exception: Current session is still running"
    /\ UNCHANGED <<sessions, pending_sessions, current_session, completed_sessions, proc_pc>>
    /\ UNCHANGED <<rvars, svars>>

\* Process.__init__: one pending session per session configuration.
InitProcess ==
    /\ IdleRetry
    /\ IdleSession
    /\ \E n \in 0..MaxSessions :
          /\ sessions = [i \in 1..n |-> NewSession]
          /\ pending_sessions = [i \in 1..n |-> i]
    /\ current_session = 0
    /\ completed_sessions = << >>
    /\ proc_pc = "call"
    /\ proc_exc = ""

NextProcess ==
    \/ Process_add_session
    \/ CallRunAllSessions
    \/ CallRunNextSession
    \/ RunNextSession
    \/ SessionRunReturns
    \/ \E concluded \in BOOLEAN : SessionRunRaises(concluded)
    \/ OtherRunNextSession

SpecProcess == InitProcess /\ [][NextProcess]_vars

(***************************************************************************)
(* One retry chain.                                                        *)
(***************************************************************************)
InitRetry ==
    /\ rp_pc = "call"
    /\ rp_kind \in {"submission", "vote"}
    /\ rp_arg_max \in 0..MaxAttemptsBound
    /\ rp_max = EffectiveMaxAttempts(rp_arg_max)
    /\ rp_attempt = 0
    /\ rp_prompt = OriginalPrompt
    /\ rp_requests = << >>
    /\ rp_sent = << >>
    /\ rp_responses = << >>
    /\ rp_failed = << >>
    /\ rp_result = None
    /\ IdleSession
    /\ IdleProcess

\* response = await self.send_prompt(prompt, response_schema): the request leaves.
SendPrompt ==
    /\ rp_pc = "call"
    /\ rp_pc' = "awaiting"
    /\ rp_requests' = Append(rp_requests, rp_prompt)
    /\ rp_sent' = Append(rp_sent, SendPromptText(rp_prompt))
    /\ UNCHANGED <<rp_kind, rp_arg_max, rp_max, rp_attempt, rp_prompt,
                   rp_responses, rp_failed, rp_result>>
    /\ UNCHANGED <<svars, pvars>>

\* The response arrives: get_json, the validators in order, then a retry with the
\* message of the first failing validator, None when no attempt is left, or the
\* response when every validator accepts it.
ReceiveResponse(raw) ==
    /\ rp_pc = "awaiting"
    /\ LET json  == get_json(raw)
           steps == ValidationSteps(rp_kind)
           f     == FirstFailing(steps, json)
       IN /\ rp_responses' = Append(rp_responses, json)
          /\ rp_failed' = Append(rp_failed, f)
          /\ IF f = 0
             THEN /\ rp_pc' = "returned"
                  /\ rp_result' = json
                  /\ UNCHANGED <<rp_attempt, rp_prompt>>
             ELSE IF MayRetry(rp_attempt, rp_max)
                  THEN /\ rp_pc' = "call"
                       /\ rp_prompt' = RetryPrompt(steps[f].invalid_message, rp_prompt)
                       /\ rp_attempt' = rp_attempt + 1
                       /\ UNCHANGED rp_result
                  ELSE /\ rp_pc' = "returned"
                       /\ rp_result' = None
                       /\ UNCHANGED <<rp_attempt, rp_prompt>>
    /\ UNCHANGED <<rp_kind, rp_arg_max, rp_max, rp_requests, rp_sent>>
    /\ UNCHANGED <<svars, pvars>>

NextRetry ==
    \/ SendPrompt
    \/ \E raw \in RawResponses(Len(rp_requests)) : ReceiveResponse(raw)

SpecRetry == InitRetry /\ [][NextRetry]_vars

(***************************************************************************)
(* Properties of the retry chain.                                          *)
(***************************************************************************)
\* Every validator of the chain's validation steps accepts the payload.
AllValid(kind, json) ==
    \A i \in 1..Len(ValidationSteps(kind)) :
        ApplyValidator(ValidationSteps(kind)[i].validator, json)

\* The corrective message the code owes after response k: that of the first
\* validation step response k fails.
CorrectiveMessage(k) == ValidationSteps(rp_kind)[rp_failed[k]].invalid_message

\* C4 (as claimed): a chain in which no response passed the validators returns
\* None after exactly max_attempts requests.
C4_ExactlyMaxAttemptsRequests ==
    (rp_pc = "returned" /\ \A k \in 1..Len(rp_responses) : ~AllValid(rp_kind, rp_responses[k]))
        => (rp_result = None /\ Len(rp_requests) = rp_max)

\* C5: a chain that returned None saw at least max_attempts invalid responses, so
\* fewer leading invalid responses never end it; a chain that returned a payload
\* returned the first response that passes every validator, and every request
\* after the first starts with the corrective message of the response before it.
C5_FirstValidPayloadReturned ==
    rp_pc = "returned" =>
        /\ rp_result.isNone =>
              /\ Len(rp_responses) >= rp_max
              /\ \A k \in 1..Len(rp_responses) : ~AllValid(rp_kind, rp_responses[k])
        /\ ~rp_result.isNone =>
              /\ AllValid(rp_kind, rp_result)
              /\ rp_result = rp_responses[Len(rp_responses)]
              /\ rp_result.n = Len(rp_requests)
              /\ \A j \in 1..(Len(rp_responses) - 1) : ~AllValid(rp_kind, rp_responses[j])
              /\ \A j \in 2..Len(rp_requests) :
                    \E i \in 1..Len(rp_requests[j]) : rp_requests[j][i] = CorrectiveMessage(j - 1)

\* C5 witness: max_attempts = 3, two invalid responses, then a valid one returned.
C5_Witness ==
    /\ rp_pc = "returned"
    /\ rp_max = 3
    /\ Len(rp_responses) = 3
    /\ ~AllValid(rp_kind, rp_responses[1])
    /\ ~AllValid(rp_kind, rp_responses[2])
    /\ AllValid(rp_kind, rp_responses[3])
    /\ rp_result = rp_responses[3]

\* C6 (as claimed): every retry request is the corrective message of the failed
\* validator, a newline, and the request first passed to the acquisition.
C6_RetryIsMessagePlusOriginal ==
    \A k \in 2..Len(rp_requests) :
        rp_requests[k] = <<CorrectiveMessage(k - 1)>> \o OriginalPrompt

\* C6 (amended): every retry request is the corrective message of the failed
\* validator, a newline, and the request of the attempt before it; the first
\* request is the original one.
C6_RetryIsMessagePlusPreviousRequest ==
    /\ Len(rp_requests) >= 1 => rp_requests[1] = OriginalPrompt
    /\ \A k \in 2..Len(rp_requests) :
          rp_requests[k] = <<CorrectiveMessage(k - 1)>> \o rp_requests[k - 1]

\* C6 witness: a second retry has been sent.
C6_Witness ==
    /\ Len(rp_requests) >= 3
    /\ rp_requests[3] = <<CorrectiveMessage(2), CorrectiveMessage(1)>> \o OriginalPrompt


(***************************************************************************)
(* Session.run: phases, concurrency, failures.                             *)
(***************************************************************************)
\* Session.run has left collect_all_votes.
AfterVotes == pc \in {"gather_results", "conclude", "save_results", "done", "raised"}

\* C1: no collect_votes call is created or running until every submission task
\* of gather_submissions is done, and gather_results has neither started nor built
\* anything until every collect_votes call is done.
C1_PhasesAreBarriers ==
    /\ (\E t \in Topics : collect[t].pc # "idle") =>
          /\ Len(tasks) = TotalTasks
          /\ \A i \in 1..Len(tasks) : tasks[i].st = "done"
    /\ (AfterVotes \/ results.built) =>
          \A t \in Topics : collect[t].pc = "done"

\* Two submission tasks and two collect_votes calls were run before gather_results.
C1_Witness ==
    /\ results.built
    /\ Len(topics) = 2
    /\ Len(tasks) = 2
    /\ \E t \in Topics : topics[t].voting_manager.results.participants # << >>

\* The submission tasks between their start and their completion.
InFlight == {i \in 1..Len(tasks) : tasks[i].st = "running"}

\* C2: the number of submission tasks in flight never exceeds max_concurrent.
C2_InFlightBounded == Cardinality(InFlight) <= max_concurrent

\* C3: Session.run never ends by raising, and when it has returned is_complete is
\* true and results holds one entry per topic.
C3_RunAlwaysCompletes ==
    /\ pc # "raised"
    /\ pc = "done" =>
          /\ is_complete
          /\ results.built
          /\ Len(results.topics) = Len(topics)

\* The vote of participant p is recorded for the round collect_votes runs on t.
Recorded(t, p) ==
    LET vm == topics[t].voting_manager
        vd == vm.results.votes_data
    IN IF is_label(vm.voting_method)
       THEN /\ DictHas(vd, collect[t].submission.uuid)
            /\ DictHas(DictGet(vd, collect[t].submission.uuid), p)
       ELSE DictHas(vd, p)

\* C7: in a round of collect_votes no task is cancelled and no exception is
\* raised; a participant whose acquisition failed (vote_json {}) has no vote
\* recorded, and every other participant whose task is done has its vote recorded
\* exactly when it passes the schema.
C7_FailedVoteNotRecorded ==
    \A t \in Topics :
        collect[t].pc = "round" =>
            /\ exc = ""
            /\ pc = "await_votes"
            /\ Len(collect[t].vote_tasks) = participants
            /\ \A p \in 1..participants :
                  LET task == collect[t].vote_tasks[p]
                      vm   == topics[t].voting_manager
                  IN /\ task.st \in {"running", "done"}
                     /\ task.st = "running" => ~Recorded(t, p)
                     /\ (task.st = "done" /\ task.vote_json = EmptyDict) => ~Recorded(t, p)
                     /\ task.st = "done" =>
                           (Recorded(t, p) <=>
                               ValidVote(vm.voting_method, SchemaN(vm), task.vote_json))

\* A round in which one participant failed and the other's vote was recorded.
C7_Witness ==
    \E t \in Topics :
        /\ collect[t].pc = "round"
        /\ AllVoteTasksDone(collect[t])
        /\ \E p, q \in 1..participants :
              /\ collect[t].vote_tasks[p].vote_json = EmptyDict
              /\ ~Recorded(t, p)
              /\ Recorded(t, q)

\* The uuids of a list of submissions.
Uuids(subs) == {subs[x].uuid : x \in 1..Len(subs)}

\* C8: a submission task whose acquisition was exhausted (the chain returned None)
\* gets None from create_submission and adds nothing to the topic or its voting
\* manager; no exception is raised, every other task still runs to completion
\* before gather_submissions returns, and a submission is in the topic and the
\* manager exactly when its task got a response and the topic accepted it.
C8_FailedSubmissionAddsNothing ==
    /\ pc \in {"spawn", "holding", "await_submissions", "await_votes"} => exc = ""
    /\ pc \notin {"spawn", "holding", "await_submissions"} =>
          /\ Len(tasks) = TotalTasks
          /\ \A i \in 1..Len(tasks) : tasks[i].st = "done"
    /\ \A i \in 1..Len(tasks) :
          LET topic == topics[tasks[i].topic]
              added == tasks[i].st = "done" /\ tasks[i].json # None /\ tasks[i].accepted
          IN /\ tasks[i].json = None =>
                   create_submission(tasks[i].json, i, tasks[i].participant) = NoSubmission
             /\ (i \in Uuids(topic.submissions)) <=> added
             /\ (i \in Range(topic.voting_manager.submission_ids)) <=> added

\* Both tasks are done: one was exhausted, the other's submission was added.
C8_Witness ==
    /\ pc = "await_votes"
    /\ \E i, j \in 1..Len(tasks) :
          /\ tasks[i].st = "done" /\ tasks[i].json = None
          /\ tasks[j].st = "done" /\ tasks[j].json # None
          /\ j \in Uuids(topics[tasks[j].topic].submissions)

(***************************************************************************)
(* get_results of the voting managers.                                     *)
(***************************************************************************)
\* No vote is recorded for submission id in the label results res.
NoVotes(res, id) ==
    ~DictHas(res.votes_data, id) \/ DictGet(res.votes_data, id) = << >>

\* The no-data value of label method m.
NoData(m, result) ==
    IF m.type = "ScoreLabel"
    THEN result.num = NullNumber
    ELSE \A e \in Range(m.enum_values) : result.counts[e] = 0

\* C9: what get_results of a label manager returns has an entry for every
\* eligible submission id, and the entry of an id without votes is the no-data
\* value of the method.
C9_LabelResultsCoverEligibleIds ==
    LET vm == topics[1].voting_manager
    IN (pc = "vm" /\ vm_ret.fresh /\ is_label(vm.voting_method)) =>
          /\ vm_ret.err = ""
          /\ \A id \in Range(vm.submission_ids) :
                /\ DictHas(vm_ret.agg, id)
                /\ NoVotes(vm.results, id) => NoData(vm.voting_method, DictGet(vm_ret.agg, id))

\* get_results of a label manager with two eligible ids, one voted on, one not.
C9_Witness ==
    LET vm == topics[1].voting_manager
    IN /\ pc = "vm" /\ vm_ret.fresh /\ is_label(vm.voting_method)
       /\ \E id, jd \in Range(vm.submission_ids) :
             /\ NoVotes(vm.results, id)
             /\ ~NoVotes(vm.results, jd)
             /\ DictHas(vm_ret.agg, id)

\* C10: what get_results of a compare manager returns has an entry for every
\* eligible submission id, whether or not a vote was recorded.
C10_CompareResultsCoverEligibleIds ==
    LET vm == topics[1].voting_manager
    IN (pc = "vm" /\ vm_ret.fresh /\ ~is_label(vm.voting_method)) =>
          /\ vm_ret.err = ""
          /\ \A id \in Range(vm.submission_ids) : DictHas(vm_ret.agg, id)

\* The ids of the entries of an aggregate.
AggregateIds(agg) == {agg[x].k : x \in 1..Len(agg)}

\* C11: every submission id in an aggregate returned by get_results is in the
\* eligible id list of the manager and is the uuid of a submission that was
\* handed to add_submission.
C11_AggregateIdsWereAdded ==
    LET vm == topics[1].voting_manager
    IN (pc = "vm" /\ vm_ret.called) =>
          /\ AggregateIds(vm_ret.agg) \subseteq Range(vm.submission_ids)
          /\ AggregateIds(vm_ret.agg) \subseteq 1..vm_calls.adds

\* An aggregate over two submissions, returned after votes were recorded.
C11_Witness ==
    /\ pc = "vm" /\ vm_ret.called
    /\ Cardinality(AggregateIds(vm_ret.agg)) = 2
    /\ topics[1].voting_manager.results.participants # << >>

\* A vote task of the round on topic t completes in this step with a vote_json
\* that fails the vote schema of the manager.
InvalidVoteStep(t) ==
    /\ collect[t].pc = "round"
    /\ collect'[t].pc = "round"
    /\ Len(collect'[t].vote_tasks) = Len(collect[t].vote_tasks)
    /\ \E p \in 1..Len(collect[t].vote_tasks) :
          /\ collect[t].vote_tasks[p].st = "running"
          /\ collect'[t].vote_tasks[p].st = "done"
          /\ ~ValidVote(topics[t].voting_manager.voting_method,
                        SchemaN(topics[t].voting_manager),
                        collect'[t].vote_tasks[p].vote_json)

\* C12: a step of collect_votes that receives a vote payload failing the vote
\* schema leaves the raw vote data (and the participant list) as they were, and
\* the aggregate get_results would compute is the same before and after it.
C12_InvalidVoteChangesNothing ==
    [][\A t \in Topics :
          InvalidVoteStep(t) =>
             /\ topics'[t].voting_manager.results = topics[t].voting_manager.results
             /\ VotingManager_process(topics'[t].voting_manager)
                   = VotingManager_process(topics[t].voting_manager)]_vars

\* A payload with a vote of the wrong range or shape was received in a round in
\* which another vote was recorded, and it is not in the raw vote data.
C12_Witness ==
    /\ pc = "vm"
    /\ collect[1].pc = "round"
    /\ \E p, q \in 1..Len(collect[1].vote_tasks) :
          /\ collect[1].vote_tasks[p].st = "done"
          /\ collect[1].vote_tasks[p].vote_json.has_vote
          /\ ~ValidVote(topics[1].voting_manager.voting_method,
                        SchemaN(topics[1].voting_manager),
                        collect[1].vote_tasks[p].vote_json)
          /\ ~Recorded(1, p)
          /\ Recorded(1, q)

(***************************************************************************)
(* add_vote and to_json of the results objects.                            *)
(***************************************************************************)
\* The results object of SpecResults and its voting method.
TheResults == topics[1].voting_manager.results
TheMethod == topics[1].voting_manager.voting_method

\* This step is an add_vote call; LastCall' is the call.
AddVoteStep == pc = "results" /\ Len(vm_calls'.votes) = Len(vm_calls.votes) + 1
LastCall == vm_calls.votes[Len(vm_calls.votes)]

\* The payload passes the vote schema of the method.
PayloadValid(vj) == ValidVote(TheMethod, MaxVMSubmissions, vj)

\* The raw vote data hold vote vj for the participant (and submission) of a call.
CellIs(res, call, vj) ==
    IF is_label(TheMethod)
    THEN /\ DictHas(res.votes_data, call.submission)
         /\ DictHas(DictGet(res.votes_data, call.submission), call.participant)
         /\ DictGet(DictGet(res.votes_data, call.submission), call.participant) = vj
    ELSE /\ DictHas(res.votes_data, call.participant)
         /\ DictGet(res.votes_data, call.participant) = vj

\* C13 (as stated): an add_vote call whose payload fails the vote schema leaves
\* the raw vote data and the participant list unchanged.
C13_AddVoteRejectsInvalid ==
    [][(AddVoteStep /\ ~PayloadValid(LastCall'.vote_json)) =>
          /\ TheResults'.votes_data = TheResults.votes_data
          /\ TheResults'.participants = TheResults.participants]_vars

\* C13 (amended): add_vote validates nothing; whatever the payload, after the call
\* the raw vote data hold it for the participant and the participant is in the
\* participant list.
C13_AddVoteRecordsAnyPayload ==
    [][AddVoteStep =>
          /\ CellIs(TheResults', LastCall', LastCall'.vote_json)
          /\ LastCall'.participant \in Range(TheResults'.participants)]_vars

\* The last add_vote call had a payload failing the schema, and it is recorded.
C13_Witness ==
    /\ pc = "results"
    /\ vm_calls.votes # << >>
    /\ ~PayloadValid(LastCall.vote_json)
    /\ CellIs(TheResults, LastCall, LastCall.vote_json)

\* The add_vote calls made so far for participant p and submission sid (sid is 0
\* on compare results), by their place in the sequence of calls.
CallsOf(p, sid) ==
    {k \in 1..Len(vm_calls.votes) :
        vm_calls.votes[k].participant = p /\ vm_calls.votes[k].submission = sid}

\* The last of them.
LastCallOf(p, sid) ==
    vm_calls.votes[CHOOSE k \in CallsOf(p, sid) : \A j \in CallsOf(p, sid) : j <= k]

\* The number of times participant p is listed in a voting_participants list.
TimesListed(voting_participants, p) ==
    Cardinality({y \in 1..Len(voting_participants) : voting_participants[y].uuid = p})

\* C14: after any sequence of LabelVotingResults.add_vote calls the raw vote data
\* hold, for every (participant, submission) pair that voted, the payload of its
\* last call and nothing for the other pairs, and to_json lists each participant
\* at most once per submission.
C14_LabelLastWriteWins ==
    (pc = "results" /\ is_label(TheMethod)) =>
        /\ \A p \in 1..participants, sid \in 1..MaxVMSubmissions :
              IF CallsOf(p, sid) = {}
              THEN ~(DictHas(TheResults.votes_data, sid)
                       /\ DictHas(DictGet(TheResults.votes_data, sid), p))
              ELSE CellIs(TheResults, LastCallOf(p, sid), LastCallOf(p, sid).vote_json)
        /\ LET json == LabelVotingResults_to_json(TheResults)
           IN \A x \in 1..Len(json.submissions) : \A p \in 1..participants :
                 TimesListed(json.submissions[x].voting_participants, p) <= 1

\* The number of times x occurs in sequence q.
Occurrences(q, x) == Cardinality({y \in 1..Len(q) : q[y] = x})

\* C15: after any sequence of CompareVotingResults.add_vote calls, a participant
\* who voted has exactly one recorded vote, the payload of its last call, and
\* occurs exactly once in the participant list and in the voting_participants of
\* to_json, with that vote; a participant who did not vote occurs in none.
C15_CompareLastWriteWins ==
    (pc = "results" /\ ~is_label(TheMethod)) =>
        LET json == CompareVotingResults_to_json(TheResults)
        IN \A p \in 1..participants :
              IF CallsOf(p, 0) = {}
              THEN /\ ~DictHas(TheResults.votes_data, p)
                   /\ Occurrences(TheResults.participants, p) = 0
                   /\ TimesListed(json.voting_participants, p) = 0
              ELSE /\ CellIs(TheResults, LastCallOf(p, 0), LastCallOf(p, 0).vote_json)
                   /\ Occurrences(DictKeys(TheResults.votes_data), p) = 1
                   /\ Occurrences(TheResults.participants, p) = 1
                   /\ TimesListed(json.voting_participants, p) = 1
                   /\ \A y \in 1..Len(json.voting_participants) :
                         json.voting_participants[y].uuid = p =>
                            json.voting_participants[y].vote = LastCallOf(p, 0).vote_json.vote

\* A participant voted twice on compare results, with different payloads, and
\* another participant voted too.
C15_Witness ==
    /\ pc = "results" /\ ~is_label(TheMethod)
    /\ \E p, q \in 1..participants :
          /\ p # q
          /\ CallsOf(q, 0) # {}
          /\ \E j, k \in CallsOf(p, 0) :
                j < k /\ vm_calls.votes[j].vote_json # vm_calls.votes[k].vote_json

\* C16: a get_results call made when no submission was added and no collect_votes
\* was called since the previous get_results has the outcome of the previous
\* call: the same aggregate (ids, values, order), or the same exception.
C16_GetResultsIdempotent ==
    [][vm_ret'.repeat =>
          /\ vm_ret'.agg = vm_ret.agg
          /\ vm_ret'.err = vm_ret.err
          /\ topics'[1].voting_manager.results = topics[1].voting_manager.results]_vars

\* get_results was called twice in a row on a manager with two eligible
\* submissions and recorded votes, and returned an aggregate.
C16_Witness ==
    /\ pc = "vm"
    /\ vm_ret.repeat
    /\ vm_ret.err = ""
    /\ Len(vm_ret.agg) = 2
    /\ topics[1].voting_manager.results.votes_data # << >>

(***************************************************************************)
(* The aggregates of the voting methods.                                   *)
(***************************************************************************)
\* process_votes was called on the results object as it is now, and returned.
Processed(type) == pc = "results" /\ vm_ret.fresh /\ vm_ret.err = "" /\ TheMethod.type = type

TheSubmissionIds == topics[1].voting_manager.submission_ids

\* v thousandths is the quotient total / count rounded to 3 decimals.
IsRounded3(v, total, count) ==
    LET diff == 1000 * total - v * count
    IN 2 * diff <= count /\ -2 * diff <= count

\* The 0-based position of submission number i in a ranking.
PositionOf(ranking, i) == (CHOOSE r \in 1..Len(ranking) : ranking[r] = i) - 1

\* The sum of f[y] over the voters y of a compare round.
RECURSIVE SumOver(_, _)
SumOver(f, n) == IF n = 0 THEN 0 ELSE f[n] + SumOver(f, n - 1)

\* The aggregate lists every submission id once and is ascending by value.
AscendingOverIds(agg, ids) ==
    /\ Len(agg) = Len(ids)
    /\ \A i \in 1..Len(ids) : \E z \in 1..Len(agg) : agg[z].k = ids[i]
    /\ \A z \in 1..(Len(agg) - 1) : agg[z].v.num.milli <= agg[z + 1].v.num.milli

\* participant1, participant2 and participant3 voted a, b and c.
VotedExactly(a, b, c) ==
    /\ Len(TheResults.votes_data) = 3
    /\ DictHas(TheResults.votes_data, 1) /\ DictGet(TheResults.votes_data, 1).vote = a
    /\ DictHas(TheResults.votes_data, 2) /\ DictGet(TheResults.votes_data, 2).vote = b
    /\ DictHas(TheResults.votes_data, 3) /\ DictGet(TheResults.votes_data, 3).vote = c

\* C17: the RankingCompare aggregate gives every submission the sum over the
\* voters of the 0-based position of its index in the voter's ranking, divided by
\* the number of voters and rounded to 3 decimals, the entries ascending by value;
\* the rankings [1,2,3], [2,1,3], [3,2,1] over three submissions give 1.0, 0.667
\* and 1.333 to submissions 1, 2 and 3.
C17_RankingCompareAggregate ==
    Processed("RankingCompare") =>
        LET vd == TheResults.votes_data
        IN /\ AscendingOverIds(vm_ret.agg, TheSubmissionIds)
           /\ \A i \in 1..Len(TheSubmissionIds) :
                 /\ ~DictGet(vm_ret.agg, TheSubmissionIds[i]).num.isNull
                 /\ IsRounded3(DictGet(vm_ret.agg, TheSubmissionIds[i]).num.milli,
                               SumOver([y \in 1..Len(vd) |-> PositionOf(vd[y].v.vote.a, i)],
                                       Len(vd)),
                               Len(vd))
           /\ VotedExactly(JArr(<<1, 2, 3>>), JArr(<<2, 1, 3>>), JArr(<<3, 2, 1>>)) =>
                 /\ DictGet(vm_ret.agg, 1).num.milli = 1000
                 /\ DictGet(vm_ret.agg, 2).num.milli = 667
                 /\ DictGet(vm_ret.agg, 3).num.milli = 1333

\* The aggregate of the three rankings of the example was computed.
C17_Witness ==
    /\ Processed("RankingCompare")
    /\ VotedExactly(JArr(<<1, 2, 3>>), JArr(<<2, 1, 3>>), JArr(<<3, 2, 1>>))
    /\ DictKeys(vm_ret.agg) = <<2, 1, 3>>

\* The score a score vote gives to submission number i (member submission_i).
ScoreGiven(scores, i) == scores[CHOOSE r \in 1..Len(scores) : scores[r][1] = i][2]

\* C18: the ScoreCompare aggregate gives every submission the sum of the scores
\* the voters gave it, divided by the number of voters and rounded to 3 decimals,
\* the entries ascending by value; the votes {3, 5}, {1, 6}, {2, 7} for
\* submissions 1 and 2 give 2.0 to submission 1 and 6.0 to submission 2.
C18_ScoreCompareAggregate ==
    Processed("ScoreCompare") =>
        LET vd == TheResults.votes_data
        IN /\ AscendingOverIds(vm_ret.agg, TheSubmissionIds)
           /\ \A i \in 1..Len(TheSubmissionIds) :
                 /\ ~DictGet(vm_ret.agg, TheSubmissionIds[i]).num.isNull
                 /\ IsRounded3(DictGet(vm_ret.agg, TheSubmissionIds[i]).num.milli,
                               SumOver([y \in 1..Len(vd) |-> ScoreGiven(vd[y].v.vote.o, i)],
                                       Len(vd)),
                               Len(vd))
           /\ VotedExactly(JObj(<<<<1, 3>>, <<2, 5>>>>), JObj(<<<<1, 1>>, <<2, 6>>>>),
                           JObj(<<<<1, 2>>, <<2, 7>>>>)) =>
                 vm_ret.agg = <<[k |-> 1, v |-> NumberResult(Number(2000))],
                                [k |-> 2, v |-> NumberResult(Number(6000))]>>

\* The aggregate of the three score votes of the example was computed.
C18_Witness ==
    /\ Processed("ScoreCompare")
    /\ VotedExactly(JObj(<<<<1, 3>>, <<2, 5>>>>), JObj(<<<<1, 1>>, <<2, 6>>>>),
                    JObj(<<<<1, 2>>, <<2, 7>>>>))
    /\ DictGet(vm_ret.agg, 2).num.milli = 6000

\* The votes recorded for a submission now: a dict participant -> vote.
RecordedVotes(sid) ==
    IF DictHas(TheResults.votes_data, sid) THEN DictGet(TheResults.votes_data, sid) ELSE << >>

\* C19: whenever ScoreLabel votes are processed, average_score of a submission
\* is the mean of the votes recorded for it at that time, one per participant,
\* rounded to 3 decimals, and null (not zero) for a submission without a vote.
C19_ScoreLabelAverage ==
    Processed("ScoreLabel") =>
        /\ DictKeys(vm_ret.agg) = TheSubmissionIds
        /\ \A x \in 1..Len(vm_ret.agg) :
              LET votes == RecordedVotes(vm_ret.agg[x].k)
                  avg   == vm_ret.agg[x].v.num
              IN IF Len(votes) = 0
                 THEN avg.isNull
                 ELSE /\ ~avg.isNull
                      /\ \A y, z \in 1..Len(votes) : votes[y].k = votes[z].k => y = z
                      /\ IsRounded3(avg.milli,
                                    SumOver([y \in 1..Len(votes) |-> votes[y].v.vote.i],
                                            Len(votes)),
                                    Len(votes))

\* Submission 1 has the votes 5 and 4 and averages 4.5, submission 2 has none.
C19_Witness ==
    /\ Processed("ScoreLabel")
    /\ Len(RecordedVotes(1)) = 2
    /\ DictGet(vm_ret.agg, 1).num = Number(4500)
    /\ Len(RecordedVotes(2)) = 0
    /\ DictGet(vm_ret.agg, 2).num.isNull

\* The participants add_vote was called for with a vote on submission sid.
VotersOf(sid) ==
    {vm_calls.votes[c].participant :
        c \in {c \in 1..Len(vm_calls.votes) : vm_calls.votes[c].submission = sid}}

\* C20: in the EnumLabel and YesNoLabel aggregate the counts of a submission sum to
\* the number of votes received for it (one per participant who voted), the count
\* of a value is the number of recorded votes with that value, and a value nobody
\* voted has count 0.
C20_EnumLabelCounts ==
    (Processed("EnumLabel") \/ Processed("YesNoLabel")) =>
        /\ DictKeys(vm_ret.agg) = TheSubmissionIds
        /\ \A x \in 1..Len(vm_ret.agg) :
              LET votes  == RecordedVotes(vm_ret.agg[x].k)
                  counts == vm_ret.agg[x].v.counts
                  values == TheMethod.enum_values
              IN /\ DOMAIN counts = Range(values)
                 /\ \A e \in Range(values) :
                       counts[e] = Cardinality({y \in 1..Len(votes) : votes[y].v.vote.s = e})
                 /\ SumOver([i \in 1..Len(values) |-> counts[values[i]]], Len(values))
                       = Cardinality(VotersOf(vm_ret.agg[x].k))
                 /\ Len(votes) = Cardinality(VotersOf(vm_ret.agg[x].k))

\* Submission 1 got Option1 twice and Option2 once, as in the test; Option3 and
\* every value of submission 2 but one count 0.
C20_Witness ==
    /\ Processed("EnumLabel")
    /\ DictGet(vm_ret.agg, 1).counts["Option1"] = 2
    /\ DictGet(vm_ret.agg, 1).counts["Option2"] = 1
    /\ DictGet(vm_ret.agg, 1).counts["Option3"] = 0
    /\ Cardinality(VotersOf(1)) = 3

(***************************************************************************)
(* Topics: construction, content schema, add_submission.                   *)
(***************************************************************************)
\* The last call made on the topic of SpecTopic, and whether this step is a call.
LastTopicCall == vm_calls.calls[Len(vm_calls.calls)]
TopicCallMade == pc = "topic" /\ vm_calls.calls # << >>
TopicCallStep == pc = "topic" /\ Len(vm_calls'.calls) = Len(vm_calls.calls) + 1

\* jsonschema.validate(content, schema) passes, for a schema with a "type" keyword.
ContentSatisfies(schema, content) == content.jt = schema.type

\* C21: after any sequence of add_submission calls, topic.submissions holds only
\* submissions whose content satisfies the topic's content schema.
C21_SubmissionsSatisfyContentSchema ==
    (pc = "topic" /\ topics # << >>) =>
        \A x \in 1..Len(topics[1].submissions) :
            ContentSatisfies(topics[1].submission_content_schema,
                             topics[1].submissions[x].content)

\* C22: when the submission validator rejects the submission, add_submission
\* raises nothing and leaves the topic's submission list, the eligible id list and
\* the pending-votes queue of the voting manager as they were.
C22_RejectedSubmissionChangesNothing ==
    [][(TopicCallStep /\ LastTopicCall'.op = "add_submission" /\ ~LastTopicCall'.accepted) =>
          /\ exc' = ""
          /\ topics'[1].submissions = topics[1].submissions
          /\ topics'[1].voting_manager.submission_ids = topics[1].voting_manager.submission_ids
          /\ topics'[1].voting_manager.submissions_needing_votes =
                topics[1].voting_manager.submissions_needing_votes]_vars

\* A submission was rejected by a topic that had accepted another one before.
C22_Witness ==
    /\ TopicCallMade
    /\ LastTopicCall.op = "add_submission" /\ ~LastTopicCall.accepted
    /\ exc = ""
    /\ Len(topics[1].submissions) = 1
    /\ Len(topics[1].voting_manager.submissions_needing_votes) = 1
    /\ vm_calls.adds = 2

\* C24: a Topic (hence its voting manager) created with a voting method name that
\* is not registered raises the registry's error in the constructor: no Topic and
\* no voting manager exists that a submission or a vote could be requested for.
C24_UnregisteredMethodRaises ==
    (TopicCallMade /\ LastTopicCall.op = "init"
        /\ LastTopicCall.voting_method \notin voting_method_registry) =>
        /\ exc = "ValueError: Voting method is not registered"
        /\ topics = << >>
        /\ vm_calls.adds = 0

\* The constructor was called with an unknown name and raised.
C24_Witness ==
    /\ TopicCallMade
    /\ LastTopicCall.op = "init"
    /\ LastTopicCall.voting_method = "Unknown"
    /\ exc = "ValueError: Voting method is not registered"
    /\ topics = << >>

\* C25: creating a Topic with a registered voting method and a well-formed
\* content schema (the default string schema included) succeeds, and
\* set_submission_content_schema with a well-formed schema stores that schema.
C25_WellFormedSchemaAccepted ==
    (TopicCallMade /\ check_schema(LastTopicCall.schema)) =>
        /\ (LastTopicCall.op = "init"
               /\ LastTopicCall.voting_method \in voting_method_registry) =>
              /\ exc = ""
              /\ topics # << >>
              /\ topics[1].submission_content_schema = LastTopicCall.schema
        /\ LastTopicCall.op = "set_submission_content_schema" =>
              /\ exc = ""
              /\ topics[1].submission_content_schema = LastTopicCall.schema

\* C26: set_submission_content_schema called with a malformed schema raises an
\* error and leaves the content schema the topic had stored unchanged.
C26_MalformedSchemaRejected ==
    [][(TopicCallStep /\ LastTopicCall'.op = "set_submission_content_schema"
           /\ ~check_schema(LastTopicCall'.schema)) =>
          /\ exc' # ""
          /\ topics' = topics]_vars

\* The malformed schema was refused by a topic that keeps its string schema.
C26_Witness ==
    /\ TopicCallMade
    /\ LastTopicCall.op = "set_submission_content_schema"
    /\ LastTopicCall.schema = ContentSchema("invalid_type")
    /\ exc # ""
    /\ topics[1].submission_content_schema = ContentSchema("string")

(***************************************************************************)
(* The end of Session.run: conclude, save_results, a session without       *)
(* topics.                                                                 *)
(***************************************************************************)
\* C23: with saving enabled, is_complete is true only once the results snapshot
\* has been built and written by save_results.
C23_CompleteOnlyAfterPersisted ==
    (do_save_results /\ is_complete) => (results.built /\ saved)

\* The steps of the coroutine of Session.run itself.
SessionRunStep ==
    \/ SemaphoreAcquire
    \/ CreateTask
    \/ AwaitSubmissionTasks
    \/ SubmissionsGathered
    \/ VotesGathered
    \/ GatherResults
    \/ Conclude
    \/ SaveResults

\* The steps of Session.run in a session without topics: no task is created, so
\* both asyncio.gather calls are given nothing to wait for and the coroutine
\* never depends on the answer of a participant.
NoTopicsRunStep == topics = << >> /\ SessionRunStep

\* Session.run under the scheduling of the event loop: the coroutine of a
\* session without topics is the only thing the loop has to run, and it is
\* resumed whenever it can take a step.  Nothing is assumed of a session with
\* topics, whose progress depends on its participants answering.
SpecLive == Spec /\ WF_vars(NoTopicsRunStep)

\* Session.run of a session without topics has returned normally.
NoTopicsDone ==
    /\ topics = << >>
    /\ pc = "done"
    /\ exc = ""
    /\ is_complete
    /\ results.built
    /\ results.topics = << >>

\* C27: a session without topics creates no submission task and no collect_votes
\* call, raises nothing, and its run ends with is_complete true and a results
\* snapshot whose topics list is empty.
C27_NoTopicsCompletes ==
    /\ [](topics = << >> => (tasks = << >> /\ collect = << >> /\ exc = ""))
    /\ (topics = << >>) ~> NoTopicsDone

\* The run of a session with participants and no topics is over.
C27_Witness == NoTopicsDone /\ participants > 0 /\ tasks = << >>

(***************************************************************************)
(* The order of a round of votes: compare and label managers.              *)
(***************************************************************************)
\* The topics of the session whose voting method is a compare method.
CompareTopics == {t \in Topics : ~is_label(topics[t].voting_manager.voting_method)}

\* C28: collect_votes of a compare manager has no vote task while a submission
\* is still pending in the queue; once the queue is drained it has exactly one
\* vote task per participant, and the schema the votes are asked for and
\* validated against is the one for N = the number of submissions the topic
\* accepted.
C28_CompareDrainsThenAsksEveryParticipant ==
    \A t \in CompareTopics :
        LET vm == topics[t].voting_manager
        IN /\ vm.submissions_needing_votes # << >> =>
                 /\ collect[t].vote_tasks = << >>
                 /\ vm.results.votes_data = << >>
           /\ collect[t].pc = "round" =>
                 /\ vm.submissions_needing_votes = << >>
                 /\ DOMAIN collect[t].vote_tasks = 1..participants
                 /\ vm.schema = Len(topics[t].submissions)

\* A round of two participants on two accepted submissions is running.
C28_Witness ==
    \E t \in CompareTopics :
        /\ collect[t].pc = "round"
        /\ Len(collect[t].vote_tasks) = 2
        /\ Len(topics[t].submissions) = 2
        /\ topics[t].voting_manager.schema = 2

\* The i-th element is the id of the i-th submission topic t accepted.
AcceptanceOrder(t) == [i \in 1..Len(topics[t].submissions) |-> topics[t].submissions[i].uuid]

\* C29: in a compare round with participants, index i stands for the i-th
\* submission the topic accepted: the list every prompt of the round is built
\* from is the list of accepted submissions in acceptance order, the index map
\* of the method is that order from the start of the round on, whichever vote
\* tasks have completed, and the aggregate of the results snapshot is the one
\* process_votes computes with that map.
C29_IndexMapIsAcceptanceOrder ==
    /\ \A t \in CompareTopics :
          (collect[t].pc \in {"round", "done"} /\ collect[t].participants > 0) =>
              /\ collect[t].submissions = topics[t].submissions
              /\ topics[t].voting_manager.submission_index_map = AcceptanceOrder(t)
    /\ \A x \in 1..Len(results.topics) :
          LET t  == results.topics[x].topic
              vm == topics[t].voting_manager
          IN t \in CompareTopics =>
                results.topics[x].voting_results =
                    process_votes(vm.voting_method, AcceptanceOrder(t), vm.results,
                                  vm.submission_ids).agg

\* Two submissions were accepted in the order opposite to their creation, two
\* participants ranked them, and the snapshot holds the aggregate.
C29_Witness ==
    \E t \in CompareTopics :
        /\ Len(topics[t].submissions) = 2
        /\ topics[t].submissions[1].uuid > topics[t].submissions[2].uuid
        /\ Len(topics[t].voting_manager.results.votes_data) = 2
        /\ \E x \in 1..Len(results.topics) : results.topics[x].topic = t

\* No vote task of the collect_votes call c is waiting for its participant.
NoVoteTaskRunning(c) == \A p \in DOMAIN c.vote_tasks : c.vote_tasks[p].st # "running"

\* The pending queue of the manager before and after a step.
PendingQueue == topics[1].voting_manager.submissions_needing_votes

\* A step of collect_votes of a label manager that takes a submission from the
\* pending queue.
LabelDequeueStep ==
    /\ is_label(topics[1].voting_manager.voting_method)
    /\ Len(PendingQueue') < Len(PendingQueue)

\* C30: collect_votes of a label manager takes the pending submissions in the
\* order they were added (the one it takes is the oldest added submission not
\* taken before), and it takes one, and creates the vote tasks for it, only when
\* every vote task of the submission taken before it is done.
C30_LabelRoundsInOrder ==
    [][LabelDequeueStep =>
          LET vm    == topics[1].voting_manager
              taken == Len(vm.submission_ids) - Len(PendingQueue)
          IN /\ NoVoteTaskRunning(collect[1])
             /\ PendingQueue' = Tail(PendingQueue)
             /\ collect'[1].submission.uuid = vm.submission_ids[taken + 1]
             /\ DOMAIN collect'[1].vote_tasks = 1..participants
             /\ \A p \in 1..participants : collect'[1].vote_tasks[p].st = "running"]_vars

\* The second submission was taken after both votes on the first were in.
C30_Witness ==
    /\ is_label(topics[1].voting_manager.voting_method)
    /\ vm_calls.adds = 2
    /\ collect[1].pc = "round"
    /\ collect[1].submission.uuid = 2
    /\ participants = 2
    /\ \A p \in 1..2 : collect[1].vote_tasks[p].st = "running"

(***************************************************************************)
(* One collect_votes call of a label manager.                              *)
(***************************************************************************)
\* The manager driven directly is a label manager.
LabelManager == is_label(topics[1].voting_manager.voting_method)

\* The vote task of participant p of the running round gets its answer.
LabelVoteAnswered(p) ==
    /\ LabelManager
    /\ collect[1].pc = "round"
    /\ p \in DOMAIN collect[1].vote_tasks
    /\ collect[1].vote_tasks[p].st = "running"
    /\ collect'[1].vote_tasks[p].st = "done"

\* The list LabelVotingResults keeps for submission sid: one element per add_vote.
VotesListed(res, sid) == IF DictHas(res.submissions, sid) THEN DictGet(res.submissions, sid) ELSE << >>

\* C31: a collect_votes call of a label manager asks every participant exactly
\* once for every submission it takes from the pending queue (the round of a
\* submission has one vote task per participant, no participant is listed twice
\* for a submission, and nothing is recorded for a submission still pending);
\* an answer that passes the schema is recorded under the submission of the
\* round and the participant who gave it; and the call returns only with an
\* empty pending queue.
C31_LabelCollectAsksEveryPair ==
    /\ [](LabelManager =>
            LET res == topics[1].voting_manager.results
            IN /\ collect[1].pc = "round" => DOMAIN collect[1].vote_tasks = 1..participants
               /\ \A x \in 1..Len(res.submissions) :
                     \A y, z \in 1..Len(res.submissions[x].v) :
                        res.submissions[x].v[y].uuid = res.submissions[x].v[z].uuid => y = z
               /\ \A x \in 1..Len(PendingQueue) :
                     /\ VotesListed(res, PendingQueue[x].uuid) = << >>
                     /\ ~DictHas(res.votes_data, PendingQueue[x].uuid))
    /\ [][\A p \in 1..participants :
             (LabelVoteAnswered(p)
                 /\ ValidVote(topics[1].voting_manager.voting_method, 0,
                              collect'[1].vote_tasks[p].vote_json)) =>
                LET sid  == collect[1].submission.uuid
                    vj   == collect'[1].vote_tasks[p].vote_json
                    res  == topics[1].voting_manager.results
                    res2 == topics'[1].voting_manager.results
                IN /\ DictHas(res2.votes_data, sid)
                   /\ DictHas(DictGet(res2.votes_data, sid), p)
                   /\ DictGet(DictGet(res2.votes_data, sid), p) = vj
                   /\ VotesListed(res2, sid) = Append(VotesListed(res, sid),
                                                     [uuid |-> p, vote |-> vj])
                   /\ \A x \in 1..Len(res.votes_data) :
                         res.votes_data[x].k # sid => res2.votes_data[x] = res.votes_data[x]]_vars
    /\ [][(LabelManager /\ collect[1].pc # "done" /\ collect'[1].pc = "done") =>
             /\ PendingQueue' = << >>
             /\ NoVoteTaskRunning(collect[1])]_vars

\* The call returned after two rounds in which both participants gave a valid
\* vote: four votes are recorded, one per submission and participant.
C31_Witness ==
    /\ LabelManager
    /\ collect[1].pc = "done"
    /\ vm_calls.collects = 1
    /\ participants = 2
    /\ PendingQueue = << >>
    /\ \A sid \in 1..2 :
          /\ Len(VotesListed(topics[1].voting_manager.results, sid)) = 2
          /\ DictHas(topics[1].voting_manager.results.votes_data, sid)
          /\ Len(DictGet(topics[1].voting_manager.results.votes_data, sid)) = 2

(***************************************************************************)
(* The retry chain: order of the validators, attempt count.                *)
(***************************************************************************)
\* The validators of the chain that reject response json, as positions in the
\* list of validation steps.
FailingSteps(json) ==
    {i \in 1..Len(ValidationSteps(rp_kind)) :
        ~ApplyValidator(ValidationSteps(rp_kind)[i].validator, json)}

\* The position in the list of the earliest of them.
EarliestFailing(json) == CHOOSE i \in FailingSteps(json) : \A j \in FailingSteps(json) : i <= j

\* C32: the request that follows a rejected response starts with the message of
\* the validator that comes first in the list among those the response fails,
\* followed by the previous request and nothing else: what the later validators
\* say of the response has no effect on the retry.
C32_EarliestFailingValidatorDecides ==
    \A k \in 1..(Len(rp_requests) - 1) :
        /\ FailingSteps(rp_responses[k]) # {}
        /\ rp_requests[k + 1] =
              <<ValidationSteps(rp_kind)[EarliestFailing(rp_responses[k])].invalid_message>>
                 \o rp_requests[k]

\* A response that fails both validators of a submission chain was answered with
\* the message of the schema validator.
C32_Witness ==
    /\ rp_kind = "submission"
    /\ Len(rp_requests) >= 2
    /\ FailingSteps(rp_responses[1]) = {1, 2}
    /\ ~rp_responses[1].isNone
    /\ Head(rp_requests[2]) = "invalid_json_response"

\* The retry chain with every request answered: the coroutine sends the request
\* it has built, and the participant eventually answers the request it was sent.
SpecRetryLive == SpecRetry /\ WF_vars(NextRetry)

\* The chain has returned a payload every validator accepts, or None.
ChainReturned ==
    /\ rp_pc = "returned"
    /\ rp_result = None \/ AllValid(rp_kind, rp_result)

\* C33: the attempt argument is the number of re-issues made so far and grows by
\* exactly one with every re-issue, whichever validator rejected the response;
\* no chain sends more than max_attempts + 1 requests; and when every request
\* is answered the chain returns, with a valid payload or with None.
C33_AttemptCountBoundsTheChain ==
    /\ [](/\ rp_attempt = (IF rp_pc = "call" THEN Len(rp_requests) ELSE Len(rp_requests) - 1)
          /\ rp_attempt <= rp_max
          /\ Len(rp_requests) <= rp_max + 1)
    /\ [][(rp_pc = "awaiting" /\ rp_pc' = "call") =>
             /\ rp_attempt' = rp_attempt + 1
             /\ rp_failed'[Len(rp_failed')] # 0]_vars
    /\ <>ChainReturned

\* A chain with max_attempts = 2 returned None after three requests, the first
\* response rejected by the second validator and the others by the first.
C33_Witness ==
    /\ rp_pc = "returned"
    /\ rp_result = None
    /\ rp_max = 2
    /\ rp_attempt = 2
    /\ Len(rp_requests) = 3
    /\ rp_failed[1] = 2
    /\ rp_failed[2] = 1

\* The position of submission id in the eligible id list ids.
PlaceIn(ids, id) == CHOOSE i \in 1..Len(ids) : ids[i] = id

\* C34: in the RankingCompare and ScoreCompare aggregate two submissions with the
\* same total stand in the order of the eligible id list.  (With the voters of
\* these runs two totals are equal exactly when the rounded quotients are.)
C34_TiesKeepEligibleOrder ==
    (Processed("RankingCompare") \/ Processed("ScoreCompare")) =>
        \A z1, z2 \in 1..Len(vm_ret.agg) :
            (z1 < z2 /\ vm_ret.agg[z1].v.num.milli = vm_ret.agg[z2].v.num.milli) =>
                PlaceIn(TheSubmissionIds, vm_ret.agg[z1].k)
                    < PlaceIn(TheSubmissionIds, vm_ret.agg[z2].k)

\* The rankings [1,2,3] and [3,2,1] give the three submissions the same total,
\* and the aggregate lists them in the order of the eligible ids.
C34_Witness ==
    /\ Processed("RankingCompare")
    /\ Len(TheResults.votes_data) = 2
    /\ \E y, z \in 1..2 :
          /\ TheResults.votes_data[y].v.vote = JArr(<<1, 2, 3>>)
          /\ TheResults.votes_data[z].v.vote = JArr(<<3, 2, 1>>)
    /\ \A z \in 1..3 : vm_ret.agg[z].v.num.milli = 1000
    /\ DictKeys(vm_ret.agg) = TheSubmissionIds

(***************************************************************************)
(* The writes of the vote tasks of a round.                                *)
(***************************************************************************)
\* The cells of the raw vote data of a manager: <<submission, participant, vote>>
\* for label results, <<0, participant, vote>> for compare results.
RawCells(vm) ==
    LET vd == vm.results.votes_data
    IN IF is_label(vm.voting_method)
       THEN {<<vd[x].k, vd[x].v[y].k, vd[x].v[y].v>> :
                <<x, y>> \in {<<x, y>> \in (1..Len(vd)) \X (1..MaxBallots) : y <= Len(vd[x].v)}}
       ELSE {<<0, vd[x].k, vd[x].v>> : x \in 1..Len(vd)}

\* The vote task of participant p of the round on topic t gets its answer and
\* runs to its end.
VoteTaskCompletes(t, p) ==
    /\ collect[t].pc = "round"
    /\ p \in DOMAIN collect[t].vote_tasks
    /\ collect[t].vote_tasks[p].st = "running"
    /\ collect'[t].vote_tasks[p].st = "done"

\* The submission part of the cell a vote task of the round on topic t writes.
RoundKey(t) ==
    IF is_label(topics[t].voting_manager.voting_method) THEN collect[t].submission.uuid ELSE 0

\* C35: a vote task completes in one step, in which it validates its answer and
\* inserts it; the step leaves every other topic and every cell already written
\* as they were, writes at most the cell of the task's own participant (and of
\* the submission of the round), a cell no other task of the round has written,
\* and completes no other task.
C35_VoteTasksWriteDisjointCells ==
    [][\A t \in Topics : \A p \in 1..participants :
          VoteTaskCompletes(t, p) =>
             LET before == RawCells(topics[t].voting_manager)
                 after  == RawCells(topics'[t].voting_manager)
                 vj     == collect'[t].vote_tasks[p].vote_json
             IN /\ \A u \in Topics \ {t} : topics'[u] = topics[u] /\ collect'[u] = collect[u]
                /\ \A q \in DOMAIN collect[t].vote_tasks \ {p} :
                      collect'[t].vote_tasks[q] = collect[t].vote_tasks[q]
                /\ \A c \in before : c[1] # RoundKey(t) \/ c[2] # p
                /\ before \subseteq after
                /\ after \ before \subseteq {<<RoundKey(t), p, vj>>}]_vars

\* Both tasks of a round have written: two cells, one per participant.
C35_Witness ==
    \E t \in Topics :
        /\ collect[t].pc = "round"
        /\ participants = 2
        /\ \A p \in 1..2 : collect[t].vote_tasks[p].st = "done"
        /\ \A p \in 1..2 : \E c \in RawCells(topics[t].voting_manager) :
              c[1] = RoundKey(t) /\ c[2] = p
        /\ ~is_label(topics[t].voting_manager.voting_method)

\* C36: whatever submission tasks have completed, accepted or rejected and in
\* any order, the ids of topic.submissions are the eligible id list of the
\* voting manager, in the same order and with the same multiplicity, and every
\* submission waiting in the pending-votes queue is in that list.
C36_TopicAndManagerAgree ==
    \A t \in Topics :
        LET vm == topics[t].voting_manager
        IN /\ vm.submission_ids = AcceptanceOrder(t)
           /\ \A x \in 1..Len(vm.submissions_needing_votes) :
                 /\ vm.submissions_needing_votes[x].uuid \in Range(vm.submission_ids)
                 /\ vm.submissions_needing_votes[x] \in Range(topics[t].submissions)

\* A topic rejected the submission of the first task and accepted that of the
\* second, which is still pending.
C36_Witness ==
    \E t \in Topics :
        /\ topics[t].voting_manager.submission_ids = <<2>>
        /\ Len(topics[t].voting_manager.submissions_needing_votes) = 1
        /\ tasks[1].topic = t
        /\ tasks[1].st = "done" /\ tasks[1].json # None /\ ~tasks[1].accepted

(***************************************************************************)
(* A repeated collect_votes call.                                          *)
(***************************************************************************)
\* A step of the second collect_votes call on the manager, made when nothing was
\* pending: the call starts with an empty queue, or (compare manager) runs the
\* round of the empty list it drained.
SecondCollectStep ==
    /\ pc = "vm"
    /\ vm_calls.collects = 2
    /\ vm_calls' = vm_calls
    /\ \/ collect[1].pc = "created" /\ PendingQueue = << >> /\ collect'[1].pc # "created"
       \/ /\ ~LabelManager
          /\ collect[1].pc = "round" /\ collect[1].submissions = << >>
          /\ collect' # collect

\* C37: a second collect_votes call on a manager to which no submission was added
\* since the first call leaves the raw vote data as they were, and get_results
\* returns after it what it returned before it.
C37_SecondCollectChangesNothing ==
    [][SecondCollectStep =>
          /\ topics'[1].voting_manager.results.votes_data
                = topics[1].voting_manager.results.votes_data
          /\ VotingManager_process(topics'[1].voting_manager)
                = VotingManager_process(topics[1].voting_manager)]_vars

(***************************************************************************)
(* The indices of the votes a ScoreCompare manager records.                *)
(***************************************************************************)
\* C38: every vote a ScoreCompare manager recorded in its collect_votes call has
\* members submission_1 .. submission_N only, N being the number of submissions
\* of the round, and process_votes finds the submission of every index.
C38_ScoreCompareVotesKnowTheirIndices ==
    (pc = "vm" /\ topics[1].voting_manager.voting_method.type = "ScoreCompare"
        /\ vm_calls.collects = 1) =>
        LET vm == topics[1].voting_manager
            vd == vm.results.votes_data
        IN /\ \A y \in 1..Len(vd) : \A r \in 1..Len(vd[y].v.vote.o) :
                 vd[y].v.vote.o[r][1] \in 1..Len(collect[1].submissions)
           /\ VotingManager_process(vm).err # "KeyError"

\* The session ids 1..n in the order the sessions were added.
AddedOrder == [i \in 1..Len(sessions) |-> i]

\* The sessions that ran to the end, the one running, the ones waiting.
ProcessOrder ==
    completed_sessions
        \o (IF current_session = 0 THEN << >> ELSE <<current_session>>)
        \o pending_sessions

\* A step that starts the run of a session.
SessionRunStarts == \E i \in DOMAIN sessions : sessions'[i].runs > sessions[i].runs

\* C39: run_all_sessions runs the pending sessions one at a time in the order
\* they were added: the completed sessions, the current one and the pending
\* ones are at every moment the added sessions in their order, each session is
\* run at most once, a run starts only when no session is current and every
\* session run before is completed, and when run_all_sessions returns every
\* session is in completed_sessions exactly once in the original order,
\* pending_sessions is empty and there is no current session.
C39_SessionsRunOneAtATimeInOrder ==
    /\ [](/\ ProcessOrder = AddedOrder
          /\ \A i \in DOMAIN sessions : sessions[i].runs <= 1
          /\ \A i \in 1..Len(pending_sessions) : sessions[pending_sessions[i]].runs = 0
          /\ \A i \in 1..Len(completed_sessions) :
                 /\ sessions[completed_sessions[i]].runs = 1
                 /\ sessions[completed_sessions[i]].is_complete
          /\ proc_pc = "returned" =>
                 /\ pending_sessions = << >>
                 /\ current_session = 0
                 /\ completed_sessions = AddedOrder)
    /\ [][SessionRunStarts =>
              /\ current_session = 0
              /\ current_session' = Head(pending_sessions)
              /\ \A i \in DOMAIN sessions :
                     sessions[i].runs > 0 =>
                         \E k \in 1..Len(completed_sessions) : completed_sessions[k] = i]_vars

\* run_all_sessions returned after three sessions were run.
C39_Witness ==
    /\ proc_pc = "returned"
    /\ completed_sessions = <<1, 2, 3>>
    /\ pending_sessions = << >>
    /\ current_session = 0

=============================================================================
